---------------------------- MODULE Spec2Model ----------------------------
(***************************************************************************)
(* A model of gov_event_notive_monitor_v1.0:                               *)
(*   - notice_webapp/app.py: the refresh endpoints, their guard flags, the *)
(*     worker threads, the periodic refresh loop and the persisted result  *)
(*     file (results.json, .bak, .tmp)                  -- specification   *)
(*     Spec;                                                               *)
(*   - notice_webapp/app.py: one _atomic_write_json against one            *)
(*     _load_json_safe on the same path                 -- SpecFile;       *)
(*   - main.py, filters/healthcare.py, crawlers/*: the collection pipeline *)
(*     (adapters, scoring, dedup, sort)                 -- SpecCollect.    *)
(***************************************************************************)
EXTENDS Integers, Sequences, FiniteSets, TLC

(***************************************************************************)
(* Bounds of the model.                                                    *)
(***************************************************************************)
\* number of POST /refresh* requests handled during a run of the web app
NumReq == 2
\* number of iterations of the periodic refresh loop
MaxAutoRuns == 1

VARIABLES
    \* ---- web app (Spec) ----
    FLAGS,        \* _FLAGS: endpoint -> BOOLEAN
    pc,           \* thread -> position (request handler, then its worker thread)
    kind,         \* thread -> "all" | "notices" | "events" | "auto" | "none"
    prev,         \* thread -> content of the canonical file when _atomic_write_json was entered
    autoRuns,     \* iterations of _auto_refresh_loop completed
    files,        \* results.json ("canon"), results.json.bak, results.json.tmp -> content
    \* ---- one _load_json_safe(RESULTS_JSON, fallback) (SpecFile) ----
    rpc,          \* position of the reader
    rtry,         \* iterations of "for _ in range(3)" started
    rres,         \* what the read returned
    start,        \* the files as they were before the writer and the reader ran
    \* ---- one collect(threshold, ...) of main.py (SpecCollect) ----
    cpc,          \* position of collect: the stage to run next, "done" or "raised"
    cerr,         \* the stage whose exception left collect
    threshold,    \* the caller's threshold
    fetched,      \* source -> the list its adapter returned
    g2bFailed,    \* the except clause of main.py:87-89 ran
    all_items,    \* iris_sel + khidi_sel + kiat_sel + keit_sel + g2b_sel
    dedup,        \* the list dedup of collect, sorted in place by step 4
    result,       \* the bundle collect returns
    \* ---- fetch_khidi_events, one listing row after another (SpecEvents) ----
    epc,          \* position inside the row loop
    erow,         \* listing rows taken so far
    reg_date,     \* reg_date of the current row
    dpage,        \* the detail page of the current row as the crawler got it
    cand,         \* (cand_link, go_link_type) of _pick_best_go_link
    tried,        \* the _validate_link calls of the current row, in order
    alts,         \* cands[:5] of the fallback scan still to validate
    alt_link,     \* alt_link of the fallback scan
    out,          \* the list out of fetch_khidi_events
    skiplog,      \* the records of data/events_skipped.jsonl
    \* ---- one _validate_link(url, ...) (SpecValidate) ----
    vpc,          \* "call" before the call, "done" after it
    vurl,         \* the argument url
    vnet,         \* what the network answers, one element per URL asked
    vres,         \* (ok, meta) as returned, or the error that left the call
    \* ---- one score_notice(meta, extra_text) (SpecScore) ----
    spc,          \* "call" before the call, "done" after it
    smeta,        \* the argument meta
    stext,        \* the argument extra_text
    sres,         \* the score and the terms it was summed from
    \* ---- one date normalisation by each crawler (SpecDate) ----
    dpc,          \* "call" before the calls, "done" after them
    draw,         \* the raw date text of the listing cell
    dres,         \* crawler -> the date it stores for the raw text
    \* ---- one fetch_g2b_service_notices(prefer=...) (SpecG2b) ----
    gpc,          \* "loop" at the head of "for mode in mode_order", "sort", "returned", "raised"
    prefer,       \* the argument prefer
    gapi,         \* mode -> what the API delivers for the mode
    gmodes,       \* the modes of mode_order not yet run
    gfinal,       \* final
    gran,         \* the modes run so far, each with len(final) after it
    \* ---- one enrich_and_filter(notices, ...) (SpecEnrich) ----
    npc,          \* "call" before the call, "done" after it
    nnotices,     \* the argument notices
    nmeta,        \* what fetch_meta_func does for each notice; <<>> when it is None
    ntext,        \* what fetch_extra_text_func does for each notice; <<>> when it is None
    nth,          \* the argument threshold
    nsel          \* selected, as returned

threadVars == <<FLAGS, pc, kind, prev, autoRuns>>
readerVars == <<rpc, rtry, rres, start>>
colVars == <<cpc, cerr, threshold, fetched, g2bFailed, all_items, dedup, result>>

evVars == <<epc, erow, reg_date, dpage, cand, tried, alts, alt_link, out, skiplog>>
vlVars == <<vpc, vurl, vnet, vres>>
scVars == <<spc, smeta, stext, sres>>
dtVars == <<dpc, draw, dres>>
g2Vars == <<gpc, prefer, gapi, gmodes, gfinal, gran>>
enVars == <<npc, nnotices, nmeta, ntext, nth, nsel>>
extVars == <<evVars, vlVars, scVars, dtVars, g2Vars, enVars>>

vars == <<threadVars, files, readerVars, colVars, g2Vars, enVars, extVars>>

(***************************************************************************)
(* File contents.  A file holds nothing (size 0), bytes that are no JSON   *)
(* document (json.load raises JSONDecodeError), bytes that cannot be       *)
(* decoded at all (open/read raises another exception), or one complete    *)
(* JSON document, identified by the number of the payload.                 *)
(***************************************************************************)
Missing == [k |-> "missing", p |-> 0]
Empty == [k |-> "empty", p |-> 0]
Corrupt == [k |-> "corrupt", p |-> 0]
Undecodable == [k |-> "undecodable", p |-> 0]
Json(p) == [k |-> "json", p |-> p]

Endpoints == {"all", "notices", "events"}
Req == 1..NumReq
AutoThread == 0
Threads == {AutoThread} \cup Req
FileNames == {"canon", "bak", "tmp"}

\* the payload a run produces: one per request job, one per iteration of the loop
PayloadOf(t) == IF t = AutoThread THEN NumReq + 1 + autoRuns ELSE t
\* the payload results.json holds before the web app starts
OldPayload == NumReq + MaxAutoRuns + 2

\* the stages of run_collection (app.py:260-277), _atomic_write_json included
RunCollectionStages == {"rc_collect", "aw_tmp", "aw_exists", "aw_backup", "aw_copy", "aw_replace", "rc_unlink"}
InFlight(t) == pc[t] \in RunCollectionStages \cup {"ev", "finally"}

\* where an exception raised inside the job body continues: the finally block of
\* _job (app.py:311-313), or the except clause of _auto_refresh_loop (app.py:348-350)
OnRaise(t) == IF t = AutoThread THEN "sleep" ELSE "finally"

(***************************************************************************)
(* Refresh endpoints, app.py:301-341.  The test of the flag and its        *)
(* assignment are two steps of the handler thread: nothing makes them      *)
(* atomic (the development server handles requests in threads).            *)
(***************************************************************************)
RefreshCheck(r, ep) ==
    /\ pc[r] = "new"
    \* requests are numbered in their order of arrival
    /\ \A q \in Req : q < r => pc[q] # "new"
    /\ kind' = [kind EXCEPT ![r] = ep]
    /\ pc' = [pc EXCEPT ![r] = IF FLAGS[ep] THEN "noop" ELSE "checked"]
    /\ UNCHANGED <<FLAGS, prev, autoRuns, files, readerVars, colVars, extVars>>

FirstStage(ep) == IF ep = "events" THEN "ev" ELSE "rc_collect"

RefreshStart(r, ep) ==
    /\ pc[r] = "checked"
    /\ kind[r] = ep
    /\ FLAGS' = [FLAGS EXCEPT ![ep] = TRUE]
    /\ pc' = [pc EXCEPT ![r] = FirstStage(ep)]
    /\ UNCHANGED <<kind, prev, autoRuns, files, readerVars, colVars, extVars>>

refresh_all(r) == RefreshCheck(r, "all") \/ RefreshStart(r, "all")

refresh_notices(r) == RefreshCheck(r, "notices") \/ RefreshStart(r, "notices")

refresh_events(r) == RefreshCheck(r, "events") \/ RefreshStart(r, "events")

\* a variant in which collect writes results.json itself (out_path=RESULTS_JSON)
RcCollect_WritesFirst(t) ==
    /\ pc[t] = "rc_collect"
    /\ files' = [files EXCEPT !["canon"] = Json(PayloadOf(t))]
    /\ \/ pc' = [pc EXCEPT ![t] = "aw_tmp"]
       \/ pc' = [pc EXCEPT ![t] = OnRaise(t)]
    /\ UNCHANGED <<FLAGS, kind, prev, autoRuns, readerVars, colVars, extVars>>

\* a variant whose finally block leaves the flag set
JobFinally_KeepsFlag(t) ==
    /\ pc[t] = "finally"
    /\ pc' = [pc EXCEPT ![t] = "done"]
    /\ UNCHANGED <<FLAGS, kind, prev, autoRuns, files, readerVars, colVars, extVars>>

\* finally: time.sleep(0.5); _FLAGS[...] = False   (app.py:311-313, 324-326, 337-339)
JobFinally(t) ==
    /\ pc[t] = "finally"
    /\ FLAGS' = [FLAGS EXCEPT ![kind[t]] = FALSE]
    /\ pc' = [pc EXCEPT ![t] = "done"]
    /\ UNCHANGED <<kind, prev, autoRuns, files, readerVars, colVars, extVars>>

(***************************************************************************)
(* run_collection, app.py:260-277.                                         *)
(***************************************************************************)
\* payload = collect(..., out_path=tmp_out), read back from tmp_out: the bundle of
\* this run, or collect raises
RcCollect(t) ==
    /\ pc[t] = "rc_collect"
    /\ \/ pc' = [pc EXCEPT ![t] = "aw_tmp"]
       \/ pc' = [pc EXCEPT ![t] = OnRaise(t)]
    /\ UNCHANGED <<FLAGS, kind, prev, autoRuns, files, readerVars, colVars, extVars>>

\* tmp_out.unlink(missing_ok=True); print(...): run_collection returns
RcUnlink(t) ==
    /\ pc[t] = "rc_unlink"
    /\ pc' = [pc EXCEPT ![t] = IF kind[t] = "notices" THEN "finally" ELSE "ev"]
    /\ UNCHANGED <<FLAGS, kind, prev, autoRuns, files, readerVars, colVars, extVars>>

\* run_events_collection (app.py:279-296) writes events.json only: it completes or raises
RunEvents(t) ==
    /\ pc[t] = "ev"
    /\ \/ pc' = [pc EXCEPT ![t] = IF t = AutoThread THEN "sleep" ELSE "finally"]
       \/ pc' = [pc EXCEPT ![t] = OnRaise(t)]
    /\ UNCHANGED <<FLAGS, kind, prev, autoRuns, files, readerVars, colVars, extVars>>

(***************************************************************************)
(* _atomic_write_json, app.py:108-123, on RESULTS_JSON.  The writing of    *)
(* the temporary file (open, json.dump, close) is one step here.           *)
(***************************************************************************)
\* with open(tmp, "w") as f: json.dump(payload, f)
AwTmp(t) ==
    /\ pc[t] = "aw_tmp"
    /\ files' = [files EXCEPT !["tmp"] = Json(PayloadOf(t))]
    /\ prev' = [prev EXCEPT ![t] = files["canon"]]
    /\ pc' = [pc EXCEPT ![t] = "aw_exists"]
    /\ UNCHANGED <<FLAGS, kind, autoRuns, readerVars, colVars, extVars>>

\* if path.exists():
AwExists(t) ==
    /\ pc[t] = "aw_exists"
    /\ pc' = [pc EXCEPT ![t] = IF files["canon"] # Missing THEN "aw_backup" ELSE "aw_replace"]
    /\ UNCHANGED <<FLAGS, kind, prev, autoRuns, files, readerVars, colVars, extVars>>

\* try: path.replace(bak); FileNotFoundError when path is gone by now
AwBackup(t) ==
    /\ pc[t] = "aw_backup"
    /\ IF files["canon"] # Missing
       THEN /\ files' = [files EXCEPT !["bak"] = files["canon"], !["canon"] = Missing]
            /\ pc' = [pc EXCEPT ![t] = "aw_replace"]
       ELSE /\ pc' = [pc EXCEPT ![t] = "aw_copy"]
            /\ UNCHANGED files
    /\ UNCHANGED <<FLAGS, kind, prev, autoRuns, readerVars, colVars, extVars>>

\* except: try: bak.write_text(path.read_text()); path.unlink(missing_ok=True)
\*         except: pass
AwCopy(t) ==
    /\ pc[t] = "aw_copy"
    /\ IF files["canon"] # Missing
       THEN files' = [files EXCEPT !["bak"] = files["canon"], !["canon"] = Missing]
       ELSE UNCHANGED files
    /\ pc' = [pc EXCEPT ![t] = "aw_replace"]
    /\ UNCHANGED <<FLAGS, kind, prev, autoRuns, readerVars, colVars, extVars>>

\* tmp.replace(path): raises FileNotFoundError when tmp is gone (not caught here)
AwReplace(t) ==
    /\ pc[t] = "aw_replace"
    /\ prev' = [prev EXCEPT ![t] = Missing]
    /\ IF files["tmp"] # Missing
       THEN /\ files' = [files EXCEPT !["canon"] = files["tmp"], !["tmp"] = Missing]
            /\ pc' = [pc EXCEPT ![t] = "rc_unlink"]
       ELSE /\ pc' = [pc EXCEPT ![t] = OnRaise(t)]
            /\ UNCHANGED files
    /\ UNCHANGED <<FLAGS, kind, autoRuns, readerVars, colVars, extVars>>

atomic_write_json(t) == AwTmp(t) \/ AwExists(t) \/ AwBackup(t) \/ AwCopy(t) \/ AwReplace(t)

(***************************************************************************)
(* _auto_refresh_loop, app.py:343-350: the thread started at app.py:403.   *)
(***************************************************************************)
\* time.sleep(15 * 60), then the next iteration
AutoSleep ==
    /\ pc[AutoThread] = "sleep"
    /\ autoRuns < MaxAutoRuns
    /\ autoRuns' = autoRuns + 1
    /\ pc' = [pc EXCEPT ![AutoThread] = "rc_collect"]
    /\ UNCHANGED <<FLAGS, kind, prev, files, readerVars, colVars, extVars>>

(***************************************************************************)
(* _load_json_safe(RESULTS_JSON, fallback), app.py:125-144, as load_results *)
(* (app.py:146-147) calls it.                                              *)
(***************************************************************************)
\* the copy of the fallback dict that "return dict(fallback)" yields
Fallback == [k |-> "fallback", p |-> 0]

\* _read(p): json.load of the file's content
\*   "ok": a document; "JSONDecodeError": no JSON document (an empty file included);
\*   "Exception": the file is gone or cannot be decoded
ReadOutcome(c) ==
    CASE c.k = "json" -> "ok"
      [] c.k \in {"empty", "corrupt"} -> "JSONDecodeError"
      [] OTHER -> "Exception"

\* range(3), app.py:131
MaxReadTries == 3

\* path.exists()
RExists ==
    /\ rpc = "r_exists"
    /\ rpc' = IF files["canon"] # Missing THEN "r_stat" ELSE "r_bak_exists"
    /\ UNCHANGED <<rtry, rres, start, threadVars, files, colVars, extVars>>

\* path.stat().st_size > 0: stat raises FileNotFoundError when the file is gone by
\* now, and nothing catches it
RStat ==
    /\ rpc = "r_stat"
    /\ rpc' = CASE files["canon"] = Missing -> "raised"
                [] files["canon"] = Empty -> "r_bak_exists"
                [] OTHER -> "r_read"
    /\ UNCHANGED <<rtry, rres, start, threadVars, files, colVars, extVars>>

\* for _ in range(3): try: return _read(path)
\*   except json.JSONDecodeError: time.sleep(0.15)   except Exception: break
RRead ==
    /\ rpc = "r_read"
    /\ CASE ReadOutcome(files["canon"]) = "ok" ->
              /\ rres' = files["canon"]
              /\ rpc' = "done"
              /\ UNCHANGED rtry
         [] ReadOutcome(files["canon"]) = "JSONDecodeError" ->
              /\ rtry' = rtry + 1
              /\ rpc' = IF rtry + 1 < MaxReadTries THEN "r_read" ELSE "r_bak_exists"
              /\ UNCHANGED rres
         [] OTHER ->
              /\ rpc' = "r_bak_exists"
              /\ UNCHANGED <<rtry, rres>>
    /\ UNCHANGED <<start, threadVars, files, colVars, extVars>>

\* bak.exists(), else return dict(fallback)
RBakExists ==
    /\ rpc = "r_bak_exists"
    /\ IF files["bak"] # Missing
       THEN rpc' = "r_bak_stat" /\ UNCHANGED rres
       ELSE rpc' = "done" /\ rres' = Fallback
    /\ UNCHANGED <<rtry, start, threadVars, files, colVars, extVars>>

\* bak.stat().st_size > 0, else return dict(fallback)
RBakStat ==
    /\ rpc = "r_bak_stat"
    /\ CASE files["bak"] = Missing -> rpc' = "raised" /\ UNCHANGED rres
         [] files["bak"] = Empty -> rpc' = "done" /\ rres' = Fallback
         [] OTHER -> rpc' = "r_bak_read" /\ UNCHANGED rres
    /\ UNCHANGED <<rtry, start, threadVars, files, colVars, extVars>>

\* a variant that never returns the backup
RBakRead_NoBackup ==
    /\ rpc = "r_bak_read"
    /\ rpc' = "done"
    /\ rres' = Fallback
    /\ UNCHANGED <<rtry, start, threadVars, files, colVars, extVars>>

\* try: return _read(bak)  except Exception: pass;  return dict(fallback)
RBakRead ==
    /\ rpc = "r_bak_read"
    /\ rpc' = "done"
    /\ rres' = IF ReadOutcome(files["bak"]) = "ok" THEN files["bak"] ELSE Fallback
    /\ UNCHANGED <<rtry, start, threadVars, files, colVars, extVars>>

load_json_safe == RExists \/ RStat \/ RRead \/ RBakExists \/ RBakStat \/ RBakRead

ReaderOff ==
    /\ rpc = "off"
    /\ rtry = 0
    /\ rres = Missing
    /\ start = [n \in FileNames |-> Missing]

\* the order in which collect calls the adapters, main.py:73-89
Sources == <<"IRIS", "KHIDI", "KIAT", "KEIT", "G2B">>
SourceSet == {Sources[i] : i \in 1..Len(Sources)}
NoResult == [count |-> 0, items |-> <<>>, threshold |-> 0]

CollectOff ==
    /\ cpc = "off"
    /\ cerr = "none"
    /\ threshold = 0
    /\ fetched = [s \in SourceSet |-> <<>>]
    /\ g2bFailed = FALSE
    /\ all_items = <<>>
    /\ dedup = <<>>
    /\ result = NoResult

\* the page, the pick and the result before any row, call or text was taken
NoPage == [fetch |-> "none", meta |-> <<>>, body |-> <<>>, attach |-> <<>>]
NoPick == [link |-> <<>>, type |-> "none"]
NoScore == [score |-> 0, agency |-> 0, inc |-> 0, exc |-> 0, ctx |-> 0, penalty |-> 0]

EventsOff ==
    /\ epc = "off"
    /\ erow = 0
    /\ reg_date = <<>>
    /\ dpage = NoPage
    /\ cand = NoPick
    /\ tried = <<>>
    /\ alts = <<>>
    /\ alt_link = <<>>
    /\ out = <<>>
    /\ skiplog = <<>>

NoVerdict == [ok |-> FALSE, raised |-> FALSE, final_url |-> <<>>, note |-> "none",
              tried_head |-> FALSE, tried_get |-> FALSE, asked |-> 0, reqs |-> <<>>]

ValidateOff ==
    /\ vpc = "off"
    /\ vurl = <<>>
    /\ vnet = <<>>
    /\ vres = NoVerdict

ScoreOff ==
    /\ spc = "off"
    /\ smeta = [agencies |-> {}, name |-> <<>>]
    /\ stext = <<>>
    /\ sres = NoScore

\* the crawlers that normalise the date cell of a listing
DateCrawlers == {"KHIDI_EDU", "KHIDI", "KEIT", "KIAT"}

DateOff ==
    /\ dpc = "off"
    /\ draw = <<>>
    /\ dres = [c \in DateCrawlers |-> [t |-> "none", v |-> <<>>]]

G2bOff ==
    /\ gpc = "off"
    /\ prefer = "mix"
    /\ gapi = <<>>
    /\ gmodes = <<>>
    /\ gfinal = <<>>
    /\ gran = <<>>

EnrichOff ==
    /\ npc = "off"
    /\ nnotices = <<>>
    /\ nmeta = <<>>
    /\ ntext = <<>>
    /\ nth = 0
    /\ nsel = <<>>

ExtOff == EventsOff /\ ValidateOff /\ ScoreOff /\ DateOff /\ G2bOff /\ EnrichOff

InitApp ==
    /\ FLAGS = [e \in Endpoints |-> FALSE]
    /\ pc = [t \in Threads |-> IF t = AutoThread THEN "rc_collect" ELSE "new"]
    /\ kind = [t \in Threads |-> IF t = AutoThread THEN "auto" ELSE "none"]
    /\ prev = [t \in Threads |-> Missing]
    /\ autoRuns = 0
    /\ \E c \in {Missing, Json(OldPayload)} : files = [n \in FileNames |-> IF n = "canon" THEN c ELSE Missing]

Init == InitApp /\ ReaderOff /\ CollectOff /\ ExtOff

Next ==
    \/ \E r \in Req : refresh_all(r)
    \/ \E r \in Req : refresh_notices(r)
    \/ \E r \in Req : refresh_events(r)
    \/ \E t \in Threads : RcCollect(t)
    \/ \E t \in Threads : RcUnlink(t)
    \/ \E t \in Threads : atomic_write_json(t)
    \/ \E t \in Threads : RunEvents(t)
    \/ \E r \in Req : JobFinally(r)
    \/ AutoSleep

Spec == Init /\ [][Next]_vars

(***************************************************************************)
(* SpecFile: one _atomic_write_json(RESULTS_JSON, new), run by thread      *)
(* Writer, against one _load_json_safe(RESULTS_JSON, fallback), from every *)
(* state of results.json and results.json.bak.                             *)
(***************************************************************************)
Writer == 1
NewPayload == PayloadOf(Writer)
\* the payload results.json.bak holds before the run
OlderPayload == OldPayload + 1
StoredContents(p) == {Missing, Empty, Corrupt, Undecodable, Json(p)}

InitFile ==
    /\ FLAGS = [e \in Endpoints |-> e = "notices"]
    /\ pc = [t \in Threads |-> IF t = Writer THEN "aw_tmp" ELSE "done"]
    /\ kind = [t \in Threads |-> IF t = AutoThread THEN "auto" ELSE "notices"]
    /\ prev = [t \in Threads |-> Missing]
    /\ autoRuns = 0
    /\ \E c \in StoredContents(OldPayload), b \in StoredContents(OlderPayload) :
          files = [n \in FileNames |-> CASE n = "canon" -> c [] n = "bak" -> b [] OTHER -> Missing]
    /\ start = files
    /\ rpc = "r_exists"
    /\ rtry = 0
    /\ rres = Missing
    /\ CollectOff
    /\ ExtOff

NextFile ==
    \/ AwTmp(Writer)
    \/ AwExists(Writer)
    \/ AwBackup(Writer)
    \/ AwReplace(Writer)
    \/ load_json_safe

SpecFile == InitFile /\ [][NextFile]_vars

(***************************************************************************)
(* Claims about the web app (Spec) and the result file (SpecFile).         *)
(***************************************************************************)
Collecting == {t \in Threads : pc[t] \in RunCollectionStages}

\* C1: at any time at most one execution of run_collection is in flight, whatever
\* the interleaving of POST /refresh, POST /refresh/notices and the periodic loop.
C1_AtMostOneCollection == Cardinality(Collecting) <= 1

\* C2: a refresh request never starts a job while a job of the same endpoint is in
\* flight: no endpoint has two of its own jobs running at once.
C2_OneJobPerEndpoint ==
    \A ep \in Endpoints : Cardinality({r \in Req : kind[r] = ep /\ InFlight(r)}) <= 1

\* C3: starting from a canonical file that holds the complete payload old, a read
\* that interleaves with one _atomic_write_json(path, new) never raises and returns
\* exactly old or exactly new (no partial document, not the empty fallback).
C3_ReadSeesOldOrNew ==
    start["canon"] = Json(OldPayload) =>
        /\ rpc # "raised"
        /\ rpc = "done" => rres \in {Json(OldPayload), Json(NewPayload)}

\* what the read contract promises for the files f
ExpectedRead(f) ==
    IF f["canon"].k = "json" THEN f["canon"]
    ELSE IF f["bak"].k = "json" THEN f["bak"]
    ELSE Fallback

\* C4: with no concurrent writer the read never raises; it returns the canonical
\* payload when that is well-formed, else the backup's payload when that is
\* well-formed, else a copy of the empty result.
C4_ReadContract ==
    (pc[Writer] = "aw_tmp" /\ rpc \in {"done", "raised"}) =>
        /\ rpc = "done"
        /\ rres = ExpectedRead(start)

\* C4 witness: the canonical file was corrupt and the read returned the backup
C4_Witness_BackupReturned ==
    /\ pc[Writer] = "aw_tmp"
    /\ rpc = "done"
    /\ start["canon"] = Corrupt
    /\ rtry = MaxReadTries
    /\ rres = Json(OlderPayload)

\* C5: when _atomic_write_json(path, payload) completes on a path whose canonical
\* file existed at the call, the canonical file holds exactly payload, the backup
\* holds exactly what the canonical file held at the call, and no .tmp file remains.
C5_WritePostcondition ==
    [][\A t \in Threads :
          (pc[t] = "aw_replace" /\ pc'[t] = "rc_unlink" /\ prev[t] # Missing) =>
              /\ files'["canon"] = Json(PayloadOf(t))
              /\ files'["bak"] = prev[t]
              /\ files'["tmp"] = Missing]_vars

(***************************************************************************)
(* SpecCollect: one call of collect(threshold, ...) of main.py:71-133.     *)
(*                                                                         *)
(* A string is a sequence of tokens: "sp" is white space, the other tokens *)
(* are words (of a title), a calendar day ("d1" < "d2"), or the parts of a *)
(* URL.  A value that may be None is the record Str(s) or PyNone.          *)
(***************************************************************************)
\* bound: the number of notices the five adapters return together
MaxNotices == 2

Str(s) == [t |-> "str", v |-> s]
PyNone == [t |-> "none", v |-> <<>>]

Min(a, b) == IF a <= b THEN a ELSE b

RECURSIVE LStrip(_)
LStrip(s) == IF s # <<>> /\ Head(s) = "sp" THEN LStrip(Tail(s)) ELSE s

RECURSIVE RStrip(_)
RStrip(s) == IF s # <<>> /\ s[Len(s)] = "sp" THEN RStrip(SubSeq(s, 1, Len(s) - 1)) ELSE s

\* str.strip()
Strip(s) == RStrip(LStrip(s))

SeqsUpTo(S, n) == UNION {[1..k -> S] : k \in 0..n}

(***************************************************************************)
(* filters/healthcare.py.  meta carries the agency fields (소관부처,       *)
(* 전문기관: the set of agency lists they match) and 공고명 (name).        *)
(***************************************************************************)
\* INCLUDE_PATTERNS and EXCLUDE_PATTERNS, healthcare.py:17-37: a pattern is the
\* set of the strings it matches.  "patient" and "diagnosis" (환자, 진단) are
\* alternatives of one pattern; "qplatform" is 양자플랫폼.
INCLUDE_PATTERNS == <<{"device"}, {"health"}, {"patient", "diagnosis"}, {"clinic"}>>
EXCLUDE_PATTERNS == <<{"road"}, {"air"}, {"army"}, {"nuclear"}, {"qplatform"}>>

\* inc_regex and exc_regex, healthcare.py:39-40: the alternation of the
\* patterns matches what any of them matches
IncludeWords == UNION {INCLUDE_PATTERNS[i] : i \in 1..Len(INCLUDE_PATTERNS)}
ExcludeWords == UNION {EXCLUDE_PATTERNS[i] : i \in 1..Len(EXCLUDE_PATTERNS)}
\* the words in which R&D|연구개발|플랫폼|데이터|AI|인공지능 finds a match
\* (healthcare.py:81): 플랫폼 is found inside 양자플랫폼
ContextWords == {"ai", "qplatform"}

EmptyMeta == [agencies |-> {}, name |-> <<>>]

WordsOf(s) == {s[i] : i \in 1..Len(s)}

\* hay = _text(title, extra_text), as the set of its words
Hay(meta, extra_text) == WordsOf(meta.name) \cup WordsOf(extra_text)

\* the agency weighting without its order of tests: secondary is tested first
AgencyPts_SecondaryFirst(meta) ==
    IF "secondary" \in meta.agencies THEN 1 ELSE IF "primary" \in meta.agencies THEN 3 ELSE 0

\* healthcare.py:50-59: if is_primary: +3, elif is_secondary: +1
AgencyPts(meta) ==
    IF "primary" \in meta.agencies THEN 3 ELSE IF "secondary" \in meta.agencies THEN 1 ELSE 0

\* the points of n matched strings without the cap
KeywordPts_Uncapped(n) == n

\* min(4, len(inc_uniq)), healthcare.py:70 and 76
KeywordPts(n) == Min(4, n)

\* inc_uniq, exc_uniq: the distinct strings finditer matched (healthcare.py:65-76)
IncUniq(meta, extra_text) == Hay(meta, extra_text) \cap IncludeWords
ExcUniq(meta, extra_text) == Hay(meta, extra_text) \cap ExcludeWords

\* healthcare.py:68-71
IncPts(meta, extra_text) ==
    IF IncUniq(meta, extra_text) # {} THEN KeywordPts(Cardinality(IncUniq(meta, extra_text))) ELSE 0
\* healthcare.py:74-77
ExcPts(meta, extra_text) ==
    IF ExcUniq(meta, extra_text) # {} THEN 0 - KeywordPts(Cardinality(ExcUniq(meta, extra_text))) ELSE 0
\* healthcare.py:81-82
CtxPts(meta, extra_text) == IF Hay(meta, extra_text) \cap ContextWords # {} THEN 1 ELSE 0
\* healthcare.py:86-88: if is_secondary and not inc
PenaltyPts(meta, extra_text) ==
    IF "secondary" \in meta.agencies /\ IncUniq(meta, extra_text) = {} THEN 0 - 1 ELSE 0

\* score_notice(meta, extra_text), healthcare.py:45-91
score_notice(meta, extra_text) ==
    AgencyPts(meta) + IncPts(meta, extra_text) + ExcPts(meta, extra_text)
    + CtxPts(meta, extra_text) + PenaltyPts(meta, extra_text)

\* a variant that compares with > instead of >=
is_interesting_strict(meta, extra_text, th) ==
    [ok |-> score_notice(meta, extra_text) > th, score |-> score_notice(meta, extra_text)]

\* is_interesting_for_association(meta, extra_text, threshold), healthcare.py:93-95
is_interesting_for_association(meta, extra_text, th) ==
    [ok |-> score_notice(meta, extra_text) >= th, score |-> score_notice(meta, extra_text)]

(***************************************************************************)
(* Links.                                                                  *)
(***************************************************************************)
\* _is_placeholder_href(href), crawlers/khidi_events.py:49-55; of PLACEHOLDER_HREFS
\* the empty string and "-" (the other members are further marker words)
PLACEHOLDER_HREFS == {<<>>, <<"-">>}
SchemeTokens == {"javascript:", "mailto:", "tel:"}

is_placeholder_href(href) ==
    \/ href = <<>>
    \/ LET s == Strip(href)
       IN  \/ s \in PLACEHOLDER_HREFS
           \/ s = <<"#">>
           \/ (s # <<>> /\ Head(s) \in SchemeTokens)

\* urljoin(cfg.base, href), crawlers/generic_board.py:60-61
KhidiBase == <<"https:", "khidi">>
urljoin(base, href) ==
    IF href = <<>> \/ href = <<"#">> THEN base
    ELSE IF Head(href) \in SchemeTokens \cup {"https:"} THEN href
    ELSE SubSeq(base, 1, 2) \o href

\* _detail_url_from_item(m), crawlers/g2b_api.py:112-120
DETAIL_URL_TMPL == <<"https:", "g2b", "bidInfoDtl">>
detail_url_from_item(m) ==
    IF Strip(m.bidNtceUrl) # <<>> THEN Str(Strip(m.bidNtceUrl))
    ELSE IF Strip(m.bidNtceNo) # <<>> THEN Str(DETAIL_URL_TMPL \o Strip(m.bidNtceNo))
    ELSE PyNone

(***************************************************************************)
(* Dates.                                                                  *)
(***************************************************************************)
DayTokens == {"d1", "d2"}
DayNumber(d) == IF d = "d1" THEN 1 ELSE 2
\* datetime.min
DatetimeMin == 0

\* _parse_date_for_sort(s), main.py:31-40: the day, or datetime.min
parse_date_for_sort(d) ==
    IF d = PyNone \/ d.v = <<>> THEN DatetimeMin
    ELSE LET s == Strip(d.v)
         IN  IF Len(s) = 1 /\ s[1] \in DayTokens THEN DayNumber(s[1]) ELSE DatetimeMin

\* datetime.timestamp() raises ValueError (year 0 is out of range) on datetime.min
TimestampRaises(dt) == dt = DatetimeMin

\* The text of a date cell is a sequence of tokens.  "d1" and "d2" are the
\* calendar days 2025-01-01 and 2025-01-02 written YYYY-MM-DD; "d1." and "d1/"
\* are d1 written with dots and with slashes, "d1k" is d1 written
\* "2025년 1월 1일".  "b-", "b." and "bk" are the same three notations of
\* 2025-13-45, which no calendar has.  "hm" is a time of day, "~" the dash of
\* a period, "x" a word such as "상시", "sp" a blank; "cut" is what is left
\* of a token that a slice cut through.
IsoShaped == DayTokens \cup {"b-"}
Dashed(tok) ==
    CASE tok \in {"d1.", "d1/"} -> "d1"
      [] tok = "b." -> "b-"
      [] OTHER -> tok
\* s.replace(".", "-").replace("/", "-")
ReplaceSeparators(s) == [i \in 1..Len(s) |-> Dashed(s[i])]

\* the number of characters of a token
Width(tok) ==
    CASE tok \in IsoShaped \cup {"d1.", "d1/", "b."} -> 10
      [] tok \in {"d1k", "bk"} -> 12
      [] tok = "hm" -> 5
      [] tok = "x" -> 2
      [] OTHER -> 1

\* s[:n]
RECURSIVE Slice(_, _)
Slice(s, n) ==
    IF s = <<>> \/ n <= 0 THEN <<>>
    ELSE IF Width(Head(s)) <= n THEN <<Head(s)>> \o Slice(Tail(s), n - Width(Head(s)))
    ELSE <<"cut">>

\* datetime.strptime(t, "%Y-%m-%d") returns for a calendar day written
\* YYYY-MM-DD and nothing else, and raises ValueError otherwise
StrptimeOk(t) == Len(t) = 1 /\ t[1] \in DayTokens

\* _date_norm(s), crawlers/khidi.py:15-24: the raw text when parsing fails
khidi_date_norm(raw) ==
    LET s == ReplaceSeparators(Strip(raw))
    IN  IF StrptimeOk(Slice(s, 10)) THEN Slice(s, 10) ELSE s

\* _norm_date(s), crawlers/kiat.py:19-26 and crawlers/keit_srome.py:11-18
norm_date(raw) ==
    IF raw = <<>> THEN PyNone
    ELSE LET s == ReplaceSeparators(Strip(raw))
         IN  IF StrptimeOk(Slice(s, 10)) THEN Str(Slice(s, 10))
             ELSE IF Slice(s, 10) = <<>> THEN PyNone ELSE Str(Slice(s, 10))

\* re.split(r"[~–—至]", s)[0]
RECURSIVE BeforeRange(_)
BeforeRange(s) ==
    IF s = <<>> \/ Head(s) = "~" THEN <<>> ELSE <<Head(s)>> \o BeforeRange(Tail(s))

\* re.search(pattern, s): the first token of s that the pattern matches, if any
RECURSIVE FirstIn(_, _)
FirstIn(s, toks) ==
    IF s = <<>> THEN <<>>
    ELSE IF Head(s) \in toks THEN <<Head(s)>>
    ELSE FirstIn(Tail(s), toks)

\* f"{y:04d}-{mo:02d}-{d:02d}" of the three numbers of a match: the same
\* numbers written YYYY-MM-DD, whatever they are
Formatted(tok) ==
    CASE tok = "d1k" -> "d1"
      [] tok = "bk" -> "b-"
      [] OTHER -> Dashed(tok)

\* _norm_date(s), crawlers/khidi_events.py:76-110
events_norm_date(raw) ==
    LET s0 == Strip(raw)
        s == BeforeRange(s0)
        korean == FirstIn(s, {"d1k", "bk"})
        separated == FirstIn(s, IsoShaped \cup {"d1.", "d1/", "b."})
    IN  IF s0 = <<>> THEN <<>>
        ELSE IF korean # <<>> THEN <<Formatted(korean[1])>>
        ELSE IF separated # <<>> THEN <<Formatted(separated[1])>>
        ELSE <<>>

(***************************************************************************)
(* The adapters.  Each builds its notices from the rows of the listing it  *)
(* fetched; a row carries the title, the text of the date cell and what    *)
(* the link is built from.                                                 *)
(***************************************************************************)
Titles == {<<"health">>, <<"road">>}
RawDates == {<<"d1">>, <<"d2">>, <<>>}
NoDetail == [raises |-> FALSE, meta |-> EmptyMeta]

\* the list of s without the elements whose key an earlier element has ("seen" sets)
RECURSIVE KeepFirst(_, _)
KeepFirst(s, keys) ==
    IF s = <<>> THEN <<>>
    ELSE LET n == Len(s)
             rest == KeepFirst(SubSeq(s, 1, n - 1), SubSeq(keys, 1, n - 1))
         IN  IF \E j \in 1..(n - 1) : keys[j] = keys[n] THEN rest ELSE Append(rest, s[n])

\* lexicographic order of strings
Alphabet ==
    <<"/a.pdf", "/apply", "/board", "/board/view", "/down", "/go", "ai", "apply", "device",
      "ext", "health", "https:", "info", "khidi", "road">>
TokenRank(w) == CHOOSE i \in 1..Len(Alphabet) : Alphabet[i] = w
RECURSIVE SeqLess(_, _)
SeqLess(a, b) ==
    IF a = <<>> THEN b # <<>>
    ELSE IF b = <<>> THEN FALSE
    ELSE IF Head(a) = Head(b) THEN SeqLess(Tail(a), Tail(b))
    ELSE TokenRank(Head(a)) < TokenRank(Head(b))

\* order of key tuples (int, int, str)
KeyLess(a, b) ==
    \/ a[1] < b[1]
    \/ a[1] = b[1] /\ a[2] < b[2]
    \/ a[1] = b[1] /\ a[2] = b[2] /\ SeqLess(a[3], b[3])

\* list.sort(key=...): stable, ascending in the keys
RECURSIVE InsertByKey(_, _, _, _)
InsertByKey(x, kx, s, keys) ==
    IF s = <<>> THEN <<x>>
    ELSE IF KeyLess(kx, Head(keys)) THEN <<x>> \o s
    ELSE <<Head(s)>> \o InsertByKey(x, kx, Tail(s), Tail(keys))

RECURSIVE SortByKey(_, _)
SortByKey(s, keys) ==
    IF s = <<>> THEN <<>>
    ELSE LET n == Len(s)
             front == SortByKey(SubSeq(s, 1, n - 1), SubSeq(keys, 1, n - 1))
             fkeys == SortByKey(SubSeq(keys, 1, n - 1), SubSeq(keys, 1, n - 1))
         IN  InsertByKey(s[n], keys[n], front, fkeys)

\* _parse_dt of khidi.py:26-30, kiat.py:28-32, keit_srome.py:20-24: datetime.min
\* unless the date is a day
adapter_parse_dt(d) ==
    IF d # PyNone /\ Len(d.v) = 1 /\ d.v[1] \in DayTokens THEN DayNumber(d.v[1]) ELSE DatetimeMin

\* items.sort(key=lambda it: _parse_dt(it.get("date")), reverse=True)
SortNewestFirst(s) ==
    SortByKey(s, [i \in 1..Len(s) |-> <<0, 0 - adapter_parse_dt(s[i].date), <<>>>>])

\* fetch_iris_notices, crawlers/iris.py:63-115: the date is the text left of
\* "공고일자 : 2025-01-02" after replace("공고일자 :", ""), the link is built from the
\* announcement id, a link seen before is skipped, and there is no meta.  detail is
\* what _iris_meta_from_link (main.py:65-69) will yield for the link.
IrisDetails ==
    {[raises |-> TRUE, meta |-> EmptyMeta], NoDetail} \cup
    {[raises |-> FALSE, meta |-> [agencies |-> {"primary"}, name |-> t]] : t \in Titles}
IrisRows == [title : Titles, date : RawDates, detail : IrisDetails]
IrisNotice(r) ==
    [source |-> "IRIS", title |-> r.title,
     date |-> Str(IF r.date = <<>> THEN <<>> ELSE <<"sp">> \o r.date),
     link |-> <<"https:", "iris", "ancmId">>, meta |-> EmptyMeta, detail |-> r.detail]
fetch_iris_notices(rows) ==
    LET ns == [i \in 1..Len(rows) |-> IrisNotice(rows[i])]
    IN  KeepFirst(ns, [i \in 1..Len(ns) |-> ns[i].link])

\* fetch_khidi_notices, crawlers/khidi.py:32-91 with crawl_board,
\* crawlers/generic_board.py:42-90
KhidiHrefs == {<<"/board/view">>, <<"javascript:", "view">>}
KhidiRows == [title : Titles, date : RawDates, href : KhidiHrefs]
KhidiNotice(r) ==
    [source |-> "KHIDI", title |-> r.title, date |-> Str(khidi_date_norm(r.date)),
     link |-> urljoin(KhidiBase, Strip(r.href)),
     meta |-> [agencies |-> {"primary"}, name |-> r.title], detail |-> NoDetail]
fetch_khidi_notices(rows) == SortNewestFirst([i \in 1..Len(rows) |-> KhidiNotice(rows[i])])

\* fetch_kiat_notices, crawlers/kiat.py:52-172: rows of one contents_id
KiatRows == [title : Titles, date : RawDates]
KiatNotice(r) ==
    [source |-> "KIAT", title |-> r.title, date |-> norm_date(r.date),
     link |-> <<"/proxy/kiat", "id">>,
     meta |-> [agencies |-> {"secondary"}, name |-> r.title], detail |-> NoDetail]
fetch_kiat_notices(rows) ==
    LET ns == [i \in 1..Len(rows) |-> KiatNotice(rows[i])]
    IN  SortNewestFirst(KeepFirst(ns, [i \in 1..Len(ns) |-> "id"]))

\* fetch_keit_srome_notices, crawlers/keit_srome.py:35-135: rows whose onclick
\* carries an announcement id
KeitRows == [title : Titles, date : RawDates]
KeitNotice(r) ==
    [source |-> "KEIT", title |-> r.title, date |-> norm_date(r.date),
     link |-> <<"https:", "iris", "ancmId", "ancmIng">>,
     meta |-> [agencies |-> {"secondary"}, name |-> r.title], detail |-> NoDetail]
fetch_keit_srome_notices(rows) == SortNewestFirst([i \in 1..Len(rows) |-> KeitNotice(rows[i])])

\* fetch_g2b_service_notices, crawlers/g2b_api.py:157-326: items of the API whose
\* title holds a keyword and whose posting day is in range; meta is the API item
G2bItems ==
    [bidNtceNm : {<<"health">>}, day : DayTokens,
     bidNtceUrl : {<<>>, <<"https:", "g2b", "url">>}, bidNtceNo : {<<>>, <<"no">>}]
G2bNotice(it) ==
    [source |-> "G2B", title |-> Strip(it.bidNtceNm), date |-> Str(<<it.day>>),
     link |-> IF detail_url_from_item(it) = PyNone THEN <<>> ELSE detail_url_from_item(it).v,
     meta |-> EmptyMeta, detail |-> NoDetail]
fetch_g2b_notices(items) ==
    LET kept == KeepFirst(items, [i \in 1..Len(items) |->
                    IF Strip(items[i].bidNtceNo) = <<>> THEN <<"row", i>> ELSE <<"no", 0>>])
    IN  SortNewestFirst([i \in 1..Len(kept) |-> G2bNotice(kept[i])])

(***************************************************************************)
(* collect, main.py:71-133.                                                *)
(***************************************************************************)
\* the thresholds callers pass: run_collection passes 0 (app.py:267)
Thresholds == {0, 2}

Collected == Len(fetched["IRIS"]) + Len(fetched["KHIDI"]) + Len(fetched["KIAT"])
             + Len(fetched["KEIT"]) + Len(fetched["G2B"])
Room == MaxNotices - Collected

\* an exception leaves collect
Raise(stage) ==
    /\ cpc' = "raised"
    /\ cerr' = stage

\* iris = [... for n in fetch_iris_notices(max_pages=max_pages)]   (main.py:73)
FetchIris ==
    /\ cpc = "IRIS"
    /\ \/ /\ \E rows \in SeqsUpTo(IrisRows, Room) :
                fetched' = [fetched EXCEPT !["IRIS"] = fetch_iris_notices(rows)]
          /\ cpc' = "KHIDI"
          /\ UNCHANGED cerr
       \/ Raise("IRIS") /\ UNCHANGED fetched
    /\ UNCHANGED <<threshold, g2bFailed, all_items, dedup, result, threadVars, files, readerVars, extVars>>

\* khidi = [... for n in fetch_khidi_notices(max_pages=max_pages)]   (main.py:74)
FetchKhidi ==
    /\ cpc = "KHIDI"
    /\ \/ /\ \E rows \in SeqsUpTo(KhidiRows, Room) :
                fetched' = [fetched EXCEPT !["KHIDI"] = fetch_khidi_notices(rows)]
          /\ cpc' = "KIAT"
          /\ UNCHANGED cerr
       \/ Raise("KHIDI") /\ UNCHANGED fetched
    /\ UNCHANGED <<threshold, g2bFailed, all_items, dedup, result, threadVars, files, readerVars, extVars>>

\* kiat = [... for n in fetch_kiat_notices(max_pages=max_pages)]   (main.py:75)
FetchKiat ==
    /\ cpc = "KIAT"
    /\ \/ /\ \E rows \in SeqsUpTo(KiatRows, Room) :
                fetched' = [fetched EXCEPT !["KIAT"] = fetch_kiat_notices(rows)]
          /\ cpc' = "KEIT"
          /\ UNCHANGED cerr
       \/ Raise("KIAT") /\ UNCHANGED fetched
    /\ UNCHANGED <<threshold, g2bFailed, all_items, dedup, result, threadVars, files, readerVars, extVars>>

\* keit = [... for n in fetch_keit_srome_notices(max_pages=1)]   (main.py:76)
FetchKeit ==
    /\ cpc = "KEIT"
    /\ \/ /\ \E rows \in SeqsUpTo(KeitRows, Room) :
                fetched' = [fetched EXCEPT !["KEIT"] = fetch_keit_srome_notices(rows)]
          /\ cpc' = "G2B"
          /\ UNCHANGED cerr
       \/ Raise("KEIT") /\ UNCHANGED fetched
    /\ UNCHANGED <<threshold, g2bFailed, all_items, dedup, result, threadVars, files, readerVars, extVars>>

\* try: g2b = [... for n in fetch_g2b_notices(...)]  except Exception: g2b = []
\* (main.py:79-89); the missing G2B_API_KEY (g2b_api.py:176-177) is one such exception
FetchG2b ==
    /\ cpc = "G2B"
    /\ \/ /\ \E items \in SeqsUpTo(G2bItems, Room) :
                fetched' = [fetched EXCEPT !["G2B"] = fetch_g2b_notices(items)]
          /\ UNCHANGED g2bFailed
       \/ /\ g2bFailed' = TRUE
          /\ UNCHANGED fetched
    /\ cpc' = "enrich"
    /\ UNCHANGED <<cerr, threshold, all_items, dedup, result, threadVars, files, readerVars, extVars>>

\* the meta enrich_and_filter scores: fetch_meta_func(n["link"]) or meta, and meta
\* when it raises (main.py:46-51)
MetaFor(n, use_fetch) ==
    IF use_fetch /\ ~n.detail.raises /\ n.detail.meta # EmptyMeta THEN n.detail.meta ELSE n.meta

Scored(n, use_fetch, th) == is_interesting_for_association(MetaFor(n, use_fetch), <<>>, th)

Item(n, use_fetch, th) ==
    [source |-> n.source, title |-> n.title, date |-> n.date, link |-> n.link,
     meta |-> MetaFor(n, use_fetch), score |-> Scored(n, use_fetch, th).score]

\* enrich_and_filter(notices, fetch_meta_func, None, threshold), main.py:43-63
RECURSIVE enrich_and_filter(_, _, _)
enrich_and_filter(notices, use_fetch, th) ==
    IF notices = <<>> THEN <<>>
    ELSE (IF Scored(Head(notices), use_fetch, th).ok
          THEN <<Item(Head(notices), use_fetch, th)>> ELSE <<>>)
         \o enrich_and_filter(Tail(notices), use_fetch, th)

\* main.py:92-100
Enrich ==
    /\ cpc = "enrich"
    /\ all_items' = enrich_and_filter(fetched["IRIS"], TRUE, threshold)
                    \o enrich_and_filter(fetched["KHIDI"], FALSE, threshold)
                    \o enrich_and_filter(fetched["KIAT"], FALSE, threshold)
                    \o enrich_and_filter(fetched["KEIT"], FALSE, threshold)
                    \o enrich_and_filter(fetched["G2B"], FALSE, threshold)
    /\ cpc' = "dedup"
    /\ UNCHANGED <<cerr, threshold, fetched, g2bFailed, dedup, result, threadVars, files, readerVars, extVars>>

\* key = (it.get("title","").strip(), it.get("date","").strip(), it.get("link","").strip())
\* of an item whose date is a string
KeyOf(it) == <<Strip(it.title), Strip(it.date.v), Strip(it.link)>>

\* main.py:103-109; None has no strip(): AttributeError
Dedup ==
    /\ cpc = "dedup"
    /\ IF \E i \in 1..Len(all_items) : all_items[i].date = PyNone
       THEN Raise("dedup") /\ UNCHANGED dedup
       ELSE /\ dedup' = KeepFirst(all_items, [i \in 1..Len(all_items) |-> KeyOf(all_items[i])])
            /\ cpc' = "sort"
            /\ UNCHANGED cerr
    /\ UNCHANGED <<threshold, fetched, g2bFailed, all_items, result, threadVars, files, readerVars, extVars>>

\* key=lambda x: (-x.get("score",0), -int(_parse_date_for_sort(x.get("date")).timestamp()),
\*                x.get("title",""))
SortKey(it) == <<0 - it.score, 0 - parse_date_for_sort(it.date), it.title>>

\* dedup.sort(key=...), main.py:113-119
Sort ==
    /\ cpc = "sort"
    /\ IF \E i \in 1..Len(dedup) : TimestampRaises(parse_date_for_sort(dedup[i].date))
       THEN Raise("sort") /\ UNCHANGED dedup
       ELSE /\ dedup' = SortByKey(dedup, [i \in 1..Len(dedup) |-> SortKey(dedup[i])])
            /\ cpc' = "return"
            /\ UNCHANGED cerr
    /\ UNCHANGED <<threshold, fetched, g2bFailed, all_items, result, threadVars, files, readerVars, extVars>>

\* result = {"count": len(dedup), ..., "items": dedup, "threshold": threshold}; return
\* (main.py:120-133)
Return ==
    /\ cpc = "return"
    /\ result' = [count |-> Len(dedup), items |-> dedup, threshold |-> threshold]
    /\ cpc' = "done"
    /\ UNCHANGED <<cerr, threshold, fetched, g2bFailed, all_items, dedup, threadVars, files, readerVars, extVars>>

AppOff ==
    /\ FLAGS = [e \in Endpoints |-> FALSE]
    /\ pc = [t \in Threads |-> "done"]
    /\ kind = [t \in Threads |-> "none"]
    /\ prev = [t \in Threads |-> Missing]
    /\ autoRuns = 0
    /\ files = [n \in FileNames |-> Missing]

InitCollect ==
    /\ AppOff
    /\ ReaderOff
    /\ ExtOff
    /\ cpc = "IRIS"
    /\ cerr = "none"
    /\ threshold \in Thresholds
    /\ fetched = [s \in SourceSet |-> <<>>]
    /\ g2bFailed = FALSE
    /\ all_items = <<>>
    /\ dedup = <<>>
    /\ result = NoResult

NextCollect ==
    \/ FetchIris
    \/ FetchKhidi
    \/ FetchKiat
    \/ FetchKeit
    \/ FetchG2b
    \/ Enrich
    \/ Dedup
    \/ Sort
    \/ Return

SpecCollect == InitCollect /\ [][NextCollect]_vars

(***************************************************************************)
(* Claims about collect (SpecCollect).                                     *)
(***************************************************************************)
AfterEnrich ==
    \/ cpc \in {"dedup", "sort", "return", "done"}
    \/ cpc = "raised" /\ cerr \in {"dedup", "sort"}

\* the dedup loop has run and the list has not been sorted yet
DedupDone ==
    \/ cpc = "sort"
    \/ cpc = "raised" /\ cerr = "sort"

\* the positions of the notices the adapters returned
FetchedAt == {<<s, i>> : s \in SourceSet, i \in 1..MaxNotices} \cap
             {p \in SourceSet \X (1..MaxNotices) : p[2] <= Len(fetched[p[1]])}
NoticeAt(p) == fetched[p[1]][p[2]]
UsesFetch(p) == p[1] = "IRIS"
ScoreAt(p) == score_notice(MetaFor(NoticeAt(p), UsesFetch(p)), <<>>)

\* C6: an exception raised by one source adapter (IRIS, KHIDI, KIAT, KEIT or G2B)
\* never leaves collect: the run goes on and returns a bundle.
C6_AdapterFailureIsolated == ~(cpc = "raised" /\ cerr \in SourceSet)

NoDuplicateKeys(s) ==
    \A i, j \in 1..Len(s) : i # j => KeyOf(s[i]) # KeyOf(s[j])

\* kept is input restricted to the first notice of every key, in input order
FirstOfKeyKept(input, kept) ==
    LET firsts == {i \in 1..Len(input) : \A j \in 1..(i - 1) : KeyOf(input[j]) # KeyOf(input[i])}
    IN  /\ Len(kept) = Cardinality(firsts)
        /\ \A i \in firsts : kept[Cardinality({j \in firsts : j <= i})] = input[i]

\* the first notice of input that has the key
FirstWithKey(input, key) ==
    input[CHOOSE i \in 1..Len(input) :
              /\ KeyOf(input[i]) = key
              /\ \A j \in 1..(i - 1) : KeyOf(input[j]) # key]

\* C7: for every input, notices with an absent date included, the dedup step of
\* collect yields a list in which no two notices have the same (trimmed title,
\* trimmed date, trimmed link) and which keeps exactly the first notice of every
\* key; the same holds of the items collect returns.
C7_DedupInvariant ==
    /\ ~(cpc = "raised" /\ cerr = "dedup")
    /\ DedupDone => NoDuplicateKeys(dedup) /\ FirstOfKeyKept(all_items, dedup)
    /\ cpc = "done" =>
          /\ NoDuplicateKeys(result.items)
          /\ \A k \in 1..Len(result.items) :
                result.items[k] = FirstWithKey(all_items, KeyOf(result.items[k]))
          /\ \A i \in 1..Len(all_items) :
                \E k \in 1..Len(result.items) : KeyOf(result.items[k]) = KeyOf(all_items[i])

\* a before b agrees with: score descending, then date descending with absent or
\* unparseable dates last, then title ascending
InClaimedOrder(a, b) ==
    \/ a.score > b.score
    \/ a.score = b.score /\ parse_date_for_sort(a.date) > parse_date_for_sort(b.date)
    \/ /\ a.score = b.score
       /\ parse_date_for_sort(a.date) = parse_date_for_sort(b.date)
       /\ ~SeqLess(b.title, a.title)

\* C8: the sort of collect completes for every input, absent dates included, and
\* every adjacent pair of the returned items is in the order (score descending,
\* date descending with absent dates last, title ascending).
C8_SortedAndCompletes ==
    /\ ~(cpc = "raised" /\ cerr = "sort")
    /\ cpc = "done" =>
          \A i \in 1..(Len(result.items) - 1) :
              InClaimedOrder(result.items[i], result.items[i + 1])

\* C9: is_interesting_for_association is true exactly when score >= threshold;
\* every notice enrich_and_filter and collect return has score >= threshold; every
\* collected notice with score >= threshold is returned by enrich_and_filter and is
\* in collect's result unless an earlier notice has its key; the bundle carries the
\* caller's threshold and count = number of items.
C9_ThresholdFilter ==
    /\ AfterEnrich =>
          /\ \A k \in 1..Len(all_items) : all_items[k].score >= threshold
          /\ \A p \in FetchedAt :
                /\ Scored(NoticeAt(p), UsesFetch(p), threshold).ok <=> (ScoreAt(p) >= threshold)
                /\ ScoreAt(p) >= threshold =>
                      \E k \in 1..Len(all_items) :
                          all_items[k] = Item(NoticeAt(p), UsesFetch(p), threshold)
    /\ cpc = "done" =>
          /\ \A k \in 1..Len(result.items) : result.items[k].score >= threshold
          /\ \A p \in FetchedAt :
                ScoreAt(p) >= threshold =>
                    \E k \in 1..Len(result.items) :
                        KeyOf(result.items[k]) = KeyOf(Item(NoticeAt(p), UsesFetch(p), threshold))
          /\ result.threshold = threshold
          /\ result.count = Len(result.items)

\* C9 witness: collect returned a notice whose score equals the threshold and
\* dropped a collected notice whose score is below it
C9_Witness_FilteredRun ==
    /\ cpc = "done"
    /\ threshold = 2
    /\ \E k \in 1..Len(result.items) : result.items[k].score = threshold
    /\ \E p \in FetchedAt : ScoreAt(p) < threshold
    /\ result.count = 1

\* C10: no notice in the result of collect has a placeholder link (empty, "-", "#",
\* or starting with javascript:, mailto: or tel:).
C10_NoPlaceholderLink ==
    cpc = "done" =>
        \A k \in 1..Len(result.items) : ~is_placeholder_href(result.items[k].link)

(***************************************************************************)
(* SpecDate: the text of one date cell, normalised by each crawler that    *)
(* stores a date: _norm_date of khidi_events.py, _date_norm of khidi.py,   *)
(* _norm_date of keit_srome.py and of kiat.py.                             *)
(***************************************************************************)
MaxDateTokens == 2
DateAlphabet == {"d1", "d2", "d1.", "d1/", "d1k", "b-", "b.", "bk", "hm", "~", "x", "sp"}
DateTexts == SeqsUpTo(DateAlphabet, MaxDateTokens)

InitDate ==
    /\ AppOff
    /\ ReaderOff
    /\ CollectOff
    /\ G2bOff
    /\ EnrichOff
    /\ EventsOff
    /\ ValidateOff
    /\ ScoreOff
    /\ dpc = "call"
    /\ draw \in DateTexts
    /\ dres = [c \in DateCrawlers |-> PyNone]

\* the date each crawler stores for the text draw
Normalise ==
    /\ dpc = "call"
    /\ dres' = [c \in DateCrawlers |->
                   CASE c = "KHIDI_EDU" -> Str(events_norm_date(draw))
                     [] c = "KHIDI" -> Str(khidi_date_norm(draw))
                     [] OTHER -> norm_date(draw)]
    /\ dpc' = "done"
    /\ UNCHANGED <<draw, threadVars, files, readerVars, colVars, g2Vars, enVars, evVars, vlVars, scVars>>

NextDate == Normalise

SpecDate == InitDate /\ [][NextDate]_vars

\* no date: None or the empty string
Absent(d) == d = PyNone \/ d.v = <<>>
\* one calendar day written YYYY-MM-DD
CalendarDay(d) == d.t = "str" /\ Len(d.v) = 1 /\ d.v[1] \in DayTokens

\* C19: whatever the text of the date cell is, the date a crawler stores for
\* it is absent or one calendar day written YYYY-MM-DD; text that is no date
\* gives an absent date and never the text itself.
C19_NormalisedDateValid ==
    dpc = "done" => \A c \in DateCrawlers : Absent(dres[c]) \/ CalendarDay(dres[c])

(***************************************************************************)
(* crawlers/khidi_events.py.  A URL is <<scheme, host, path>>; an href is  *)
(* a URL or a path of the host of the page it stands on.                   *)
(***************************************************************************)
MaxHops == 2

\* detail_href: urljoin(BASE, a.get("href")) of the row's td a[href*='/board/view']
DetailHref == <<"https:", "khidi", "/board/view">>
BoardUrl == <<"https:", "khidi", "/board">>
ExtApply == <<"https:", "ext", "/apply">>
ExtGo == <<"https:", "ext", "/go">>
ExtFile == <<"https:", "ext", "/a.pdf">>

\* path.rstrip("/")
RStripSlash(path) ==
    CASE path = "/board/" -> "/board"
      [] path = "/board/-/" -> "/board/-"
      [] OTHER -> path

\* _looks_like_khidi_placeholder(url), khidi_events.py:57-65
looks_like_khidi_placeholder(url) ==
    /\ Len(url) >= 3
    /\ url[2] = "khidi"
    /\ RStripSlash(url[3]) \in {"/board", "/board/-"}

\* _safe_abs_url(href, base), khidi_events.py:141-144; <<>> is None
safe_abs_url(href, base) ==
    IF is_placeholder_href(href) THEN <<>> ELSE urljoin(base, Strip(href))

\* _follow_meta_refresh(html, base_url), khidi_events.py:147-154; target is
\* what the page's refresh tag names, <<>> when the page has no such tag
follow_meta_refresh(target, base_url) ==
    IF target = <<>> THEN <<>> ELSE safe_abs_url(target, base_url)

\* _looks_like_ok_content without its size tests: only a listed Content-Type
looks_like_ok_content_TypeOnly(content) == content \in {"html", "pdf"}

\* _looks_like_ok_content(resp), khidi_events.py:124-137.  content is "html"
\* or "pdf" (a listed Content-Type), "large" (another type, more than 200
\* bytes) or "small" (another type, at most 200 bytes)
looks_like_ok_content(content) == content \in {"html", "pdf", "large"}

\* What the network answers when one URL is asked, HEAD then GET.
\*   head: "2xx", "other" (any other status), "error" (timeout, connection
\*         error, or the retries of _mount_retries exhausted: an exception)
\*   get:  "lt400", "ge400", "error"; "unused" when HEAD answered 2xx
\*   final: where the redirects ended (hr.url, gr.url), <<>> for the URL asked
\*   refresh: the target of the meta refresh tag of an html body
Finals == {<<>>, DetailHref, BoardUrl}
RefreshTargets == {<<>>, <<"#">>, ExtFile, DetailHref}
NetAnswers ==
    {[head |-> "2xx", get |-> "unused", content |-> "small", final |-> f, refresh |-> <<>>] : f \in Finals}
    \cup {[head |-> h, get |-> "error", content |-> "small", final |-> <<>>, refresh |-> <<>>] :
            h \in {"other", "error"}}
    \cup {[head |-> h, get |-> "ge400", content |-> c, final |-> <<>>, refresh |-> <<>>] :
            h \in {"other", "error"}, c \in {"html", "pdf", "small"}}
    \cup {[head |-> h, get |-> "lt400", content |-> "small", final |-> <<>>, refresh |-> <<>>] :
            h \in {"other", "error"}}
    \cup {[head |-> h, get |-> "lt400", content |-> c, final |-> f, refresh |-> <<>>] :
            h \in {"other", "error"}, c \in {"pdf", "large"}, f \in Finals}
    \cup {[head |-> h, get |-> "lt400", content |-> "html", final |-> f, refresh |-> t] :
            h \in {"other", "error"}, f \in Finals, t \in RefreshTargets}

\* str(hr.url), str(gr.url)
Landed(r, url) == IF r.final = <<>> THEN url ELSE r.final

\* nxt and nxt != str(gr.url), khidi_events.py:188-189
Nxt(r, url) == follow_meta_refresh(r.refresh, Landed(r, url))
Recurses(r, url) ==
    /\ r.head # "2xx"
    /\ r.get = "lt400"
    /\ r.content = "html"
    /\ Nxt(r, url) # <<>>
    /\ Nxt(r, url) # Landed(r, url)

\* the GET block without its handler: the exception leaves _validate_link
get_except_reraise(final_url) ==
    [ok |-> FALSE, raised |-> TRUE, final_url |-> final_url, note |-> "get_err",
     tried_head |-> TRUE, tried_get |-> TRUE, asked |-> 1, reqs |-> <<"HEAD", "GET">>]

\* except Exception as e of the GET block, khidi_events.py:200-202: the
\* error is noted and the call returns (False, meta)
get_except(final_url) ==
    [ok |-> FALSE, raised |-> FALSE, final_url |-> final_url, note |-> "get_err",
     tried_head |-> TRUE, tried_get |-> TRUE, asked |-> 1, reqs |-> <<"HEAD", "GET">>]

\* _validate_link(url, sess, referer), khidi_events.py:156-202.  net holds the
\* answers of the URLs the call asks, in the order it asks them.  raised tells
\* whether an exception left the call: HEAD, GET and the recursive call all
\* stand inside try/except Exception.  asked counts the URLs validated by the
\* call and the calls it makes on itself; reqs lists the requests sent.
RECURSIVE validate_link(_, _)
validate_link(url, net) ==
    IF url = <<>>
    THEN [ok |-> FALSE, raised |-> FALSE, final_url |-> url, note |-> "empty-url",
          tried_head |-> FALSE, tried_get |-> FALSE, asked |-> 0, reqs |-> <<>>]
    ELSE LET r == Head(net)
             head_note == IF r.head = "error" THEN "head_err" ELSE "none"
             after_head == IF r.head = "error" THEN url ELSE Landed(r, url)
         IN  IF r.head = "2xx"
             THEN [ok |-> TRUE, raised |-> FALSE, final_url |-> Landed(r, url), note |-> "none",
                   tried_head |-> TRUE, tried_get |-> FALSE, asked |-> 1, reqs |-> <<"HEAD">>]
             ELSE IF r.get = "error"
             THEN get_except(after_head)
             ELSE IF r.get = "lt400" /\ looks_like_ok_content(r.content)
             THEN IF Recurses(r, url)
                  THEN LET m2 == validate_link(Nxt(r, url), Tail(net))
                       IN  IF m2.raised
                           THEN [get_except(Landed(r, url)) EXCEPT !.asked = 1 + m2.asked,
                                                                   !.reqs = <<"HEAD", "GET">> \o m2.reqs]
                           ELSE [ok |-> m2.ok, raised |-> FALSE, final_url |-> m2.final_url,
                                 note |-> "meta-refresh", tried_head |-> TRUE, tried_get |-> TRUE,
                                 asked |-> 1 + m2.asked, reqs |-> <<"HEAD", "GET">> \o m2.reqs]
                  ELSE [ok |-> TRUE, raised |-> FALSE, final_url |-> Landed(r, url), note |-> head_note,
                        tried_head |-> TRUE, tried_get |-> TRUE, asked |-> 1, reqs |-> <<"HEAD", "GET">>]
             ELSE [ok |-> FALSE, raised |-> FALSE, final_url |-> Landed(r, url), note |-> "get_bad_status",
                   tried_head |-> TRUE, tried_get |-> TRUE, asked |-> 1, reqs |-> <<"HEAD", "GET">>]

\* the answers the network can give to a call for url: one per URL asked,
\* with at most hops meta refreshes that lead on to another URL
RECURSIVE NetsFrom(_, _)
NetsFrom(url, hops) ==
    {<<r>> : r \in {a \in NetAnswers : ~Recurses(a, url)}}
    \cup (IF hops = 0 THEN {}
          ELSE UNION {{<<r>> \o n : n \in NetsFrom(Nxt(r, url), hops - 1)} :
                         r \in {a \in NetAnswers : Recurses(a, url)}})

\* the URLs a row of the listing can make the crawler validate
CandidateUrls == {DetailHref, BoardUrl, ExtApply, ExtGo, ExtFile, <<"https:", "khidi", "/down">>}

(***************************************************************************)
(* SpecValidate: one _validate_link(url, ...) for every URL and every      *)
(* behaviour of the network.                                               *)
(***************************************************************************)
InitValidate ==
    /\ AppOff
    /\ ReaderOff
    /\ CollectOff
    /\ G2bOff
    /\ EnrichOff
    /\ EventsOff
    /\ ScoreOff
    /\ DateOff
    /\ vpc = "call"
    /\ vurl \in CandidateUrls \cup {<<>>}
    /\ vnet \in NetsFrom(vurl, MaxHops)
    /\ vres = NoVerdict

ValidateLink ==
    /\ vpc = "call"
    /\ vres' = validate_link(vurl, vnet)
    /\ vpc' = "done"
    /\ UNCHANGED <<vurl, vnet, threadVars, files, readerVars, colVars, g2Vars, enVars, evVars, scVars, dtVars>>

NextValidate == ValidateLink

SpecValidate == InitValidate /\ [][NextValidate]_vars

\* C13: _validate_link lets no error out.  Whatever HEAD and GET do (answer
\* with any status, time out, fail to connect, exhaust the retries), for the
\* URL asked first and for every URL a meta refresh leads on to, the call
\* returns valid or invalid together with its diagnostics; when both HEAD and
\* GET of a URL end in an error the result is invalid.
C13_ValidateNeverRaises ==
    vpc = "done" =>
        /\ ~vres.raised
        /\ vres.ok \in BOOLEAN
        /\ vres.note \in {"none", "empty-url", "head_err", "get_err", "get_bad_status", "meta-refresh"}
        /\ vres.final_url \in CandidateUrls \cup {<<>>}
        /\ \A i \in 1..Len(vnet) :
              vnet[i].head = "error" /\ vnet[i].get = "error" /\ vurl # <<>> => ~vres.ok

\* HEAD and GET of the URL a meta refresh led to both ended in an error
C13_Witness_ErrorAfterRefresh ==
    /\ vpc = "done"
    /\ Len(vnet) = 2
    /\ vres.asked = 2
    /\ vnet[2].head = "error"
    /\ vnet[2].get = "error"
    /\ ~vres.ok
    /\ ~vres.raised

(***************************************************************************)
(* The detail page of a listing row and the candidates it offers.          *)
(***************************************************************************)
\* _KEYWORD_SCORE, khidi_events.py:205-212 (신청, 바로가기, 원문, 공고문, 자세히, 안내)
KEYWORD_SCORE ==
    << <<"apply", 5>>, <<"go", 4>>, <<"orig", 4>>, <<"notice", 3>>, <<"more", 2>>, <<"info", 1>> >>

\* kw in txt
InText(kw, txt) == \E i \in 1..Len(txt) : txt[i] = kw

RECURSIVE KeywordSum(_, _)
KeywordSum(txt, k) ==
    IF k = 0 THEN 0
    ELSE KeywordSum(txt, k - 1) + (IF InText(KEYWORD_SCORE[k][1], txt) THEN KEYWORD_SCORE[k][2] ELSE 0)

\* _score_anchor(a), khidi_events.py:214-226: the host is that of the href as written
score_anchor(a) ==
    KeywordSum(a.text, Len(KEYWORD_SCORE))
    + (IF Len(a.href) >= 2 /\ a.href[1] = "https:" /\ a.href[2] # "khidi" THEN 2 ELSE 0)

\* order of the tuples (sc, href, text)
TupleLess(a, b) ==
    \/ a.sc < b.sc
    \/ a.sc = b.sc /\ SeqLess(a.u, b.u)
    \/ a.sc = b.sc /\ a.u = b.u /\ SeqLess(a.txt, b.txt)

\* cands.sort(reverse=True)
RECURSIVE InsertReverse(_, _)
InsertReverse(x, s) ==
    IF s = <<>> THEN <<x>>
    ELSE IF TupleLess(Head(s), x) THEN <<x>> \o s
    ELSE <<Head(s)>> \o InsertReverse(x, Tail(s))

RECURSIVE SortReverse(_)
SortReverse(s) ==
    IF s = <<>> THEN <<>>
    ELSE InsertReverse(s[Len(s)], SortReverse(SubSeq(s, 1, Len(s) - 1)))

\* the first non-placeholder anchor of the labelled rows of the meta table
RECURSIVE MetaLink(_, _)
MetaLink(hrefs, detail_url) ==
    IF hrefs = <<>> THEN <<>>
    ELSE IF safe_abs_url(Head(hrefs), detail_url) # <<>> THEN safe_abs_url(Head(hrefs), detail_url)
    ELSE MetaLink(Tail(hrefs), detail_url)

\* the tuples (sc, href, text) of the body anchors with a usable href other
\* than skip and a positive score, in document order
RECURSIVE BodyCands(_, _, _)
BodyCands(anchors, detail_url, skip) ==
    IF anchors = <<>> THEN <<>>
    ELSE LET a == Head(anchors)
             u == safe_abs_url(a.href, detail_url)
             rest == BodyCands(Tail(anchors), detail_url, skip)
         IN  IF u # <<>> /\ u # skip /\ score_anchor(a) > 0
             THEN <<[sc |-> score_anchor(a), u |-> u, txt |-> a.text]>> \o rest
             ELSE rest

\* re.search(r"\.(pdf|hwp|docx?|pptx?)$", href, re.I)
IsDocument(u) == u[Len(u)] \in {"/a.pdf"}

\* the first attachment anchor with a usable href that names a document
RECURSIVE AttachLink(_, _)
AttachLink(anchors, detail_url) ==
    IF anchors = <<>> THEN <<>>
    ELSE LET u == safe_abs_url(Head(anchors).href, detail_url)
         IN  IF u # <<>> /\ IsDocument(u) THEN u ELSE AttachLink(Tail(anchors), detail_url)

\* _pick_best_go_link with steps 1 and 2 exchanged: a scored body anchor is
\* preferred to the link of the meta table
pick_best_go_link_BodyFirst(page, detail_url) ==
    LET cands == SortReverse(BodyCands(page.body, detail_url, <<>>))
    IN  IF cands # <<>> THEN [link |-> cands[1].u, type |-> "body"]
        ELSE IF MetaLink(page.meta, detail_url) # <<>>
        THEN [link |-> MetaLink(page.meta, detail_url), type |-> "meta"]
        ELSE IF AttachLink(page.attach, detail_url) # <<>>
        THEN [link |-> AttachLink(page.attach, detail_url), type |-> "attachment"]
        ELSE [link |-> detail_url, type |-> "detail"]

\* _pick_best_go_link(detail_html, detail_url), khidi_events.py:237-292
pick_best_go_link(page, detail_url) ==
    LET cands == SortReverse(BodyCands(page.body, detail_url, <<>>))
    IN  IF MetaLink(page.meta, detail_url) # <<>>
        THEN [link |-> MetaLink(page.meta, detail_url), type |-> "meta"]
        ELSE IF cands # <<>> THEN [link |-> cands[1].u, type |-> "body"]
        ELSE IF AttachLink(page.attach, detail_url) # <<>>
        THEN [link |-> AttachLink(page.attach, detail_url), type |-> "attachment"]
        ELSE [link |-> detail_url, type |-> "detail"]

\* every attachment anchor with a usable href other than skip, with score 3
RECURSIVE AttachCands(_, _, _)
AttachCands(anchors, detail_url, skip) ==
    IF anchors = <<>> THEN <<>>
    ELSE LET a == Head(anchors)
             u == safe_abs_url(a.href, detail_url)
             rest == AttachCands(Tail(anchors), detail_url, skip)
         IN  IF u # <<>> /\ u # skip THEN <<[sc |-> 3, u |-> u, txt |-> a.text]>> \o rest ELSE rest

\* the fallback scan without its slice [:5]: every alternative is kept
Alternatives_Unbounded(page, cand_link) ==
    SortReverse(BodyCands(page.body, DetailHref, cand_link) \o AttachCands(page.attach, DetailHref, cand_link))

\* cands[:5] of the fallback scan, khidi_events.py:339-360
AltLimit == 5
Alternatives(page, cand_link) ==
    LET cands == SortReverse(BodyCands(page.body, DetailHref, cand_link)
                             \o AttachCands(page.attach, DetailHref, cand_link))
    IN  SubSeq(cands, 1, Min(AltLimit, Len(cands)))

\* detail pages that offer more alternatives than the fallback loop validates
LongBody ==
    <<[href |-> ExtGo, text |-> <<"info">>], [href |-> ExtGo, text |-> <<>>],
      [href |-> <<"/board">>, text |-> <<"apply">>], [href |-> ExtApply, text |-> <<"info">>]>>
LongAttach ==
    <<[href |-> ExtFile, text |-> <<>>], [href |-> <<"/down">>, text |-> <<>>],
      [href |-> <<"/board/view">>, text |-> <<>>]>>
LongPages ==
    {[fetch |-> "ok", meta |-> m, body |-> LongBody, attach |-> LongAttach] : m \in {<<>>, <<ExtApply>>}}

\* the detail pages: fetch is "ok", "error" (sess.get or raise_for_status
\* raised), "empty" (an empty body) or "pick_error" (_pick_best_go_link raised
\* on the body)
MetaHrefs == {ExtApply, <<"/board">>, <<"#">>}
BodyAnchors ==
    {[href |-> ExtGo, text |-> <<"info">>], [href |-> ExtGo, text |-> <<>>],
     [href |-> <<"/board">>, text |-> <<"apply">>], [href |-> <<"/down">>, text |-> <<>>]}
AttachAnchors ==
    {[href |-> ExtFile, text |-> <<>>], [href |-> <<"/down">>, text |-> <<>>],
     [href |-> <<"/board/view">>, text |-> <<>>]}
Pages ==
    {[fetch |-> "ok", meta |-> m, body |-> b, attach |-> a] :
        m \in SeqsUpTo(MetaHrefs, 1), b \in SeqsUpTo(BodyAnchors, 1), a \in SeqsUpTo(AttachAnchors, 1)}
    \cup {[fetch |-> "pick_error", meta |-> <<>>, body |-> b, attach |-> a] :
            b \in SeqsUpTo(BodyAnchors, 1), a \in SeqsUpTo(AttachAnchors, 1)}
    \cup {[fetch |-> f, meta |-> <<>>, body |-> <<>>, attach |-> <<>>] : f \in {"error", "empty"}}
    \cup LongPages

\* dr_html is not empty
HasHtml(page) == page.fetch \in {"ok", "pick_error"}

\* cand_link, meta of khidi_events.py:325-333
FirstPick(page) ==
    CASE page.fetch = "ok" -> pick_best_go_link(page, DetailHref)
      [] page.fetch = "empty" -> [link |-> DetailHref, type |-> "detail"]
      [] OTHER -> [link |-> DetailHref, type |-> "detail_error"]

\* the results _validate_link can give for a URL: ok, final_url and whether
\* the note tells of a meta refresh that was followed
VerdictsOf ==
    [u \in CandidateUrls |->
        {[url |-> u, ok |-> validate_link(u, n).ok, final_url |-> validate_link(u, n).final_url,
          refreshed |-> validate_link(u, n).note = "meta-refresh"] :
            n \in NetsFrom(u, MaxHops)}]

\* str(go_link_type).startswith("detail")
StartsWithDetail(type) == type \in {"detail", "detail_error", "detail_fallback"}

(***************************************************************************)
(* SpecEvents: fetch_khidi_events, one listing row after another.          *)
(***************************************************************************)
MaxRows == 2
EventDateCells == {<<"d1">>, <<"x">>}

InitEvents ==
    /\ AppOff
    /\ ReaderOff
    /\ CollectOff
    /\ G2bOff
    /\ EnrichOff
    /\ ValidateOff
    /\ ScoreOff
    /\ DateOff
    /\ epc = "row"
    /\ erow = 0
    /\ reg_date = <<>>
    /\ dpage = NoPage
    /\ cand = NoPick
    /\ tried = <<>>
    /\ alts = <<>>
    /\ alt_link = <<>>
    /\ out = <<>>
    /\ skiplog = <<>>

\* khidi_events.py:312-333: the next row with a detail anchor, its date, its
\* detail page and the first pick
TakeRow ==
    /\ epc = "row"
    /\ erow < MaxRows
    /\ erow' = erow + 1
    /\ \E cell \in EventDateCells : reg_date' = events_norm_date(cell)
    /\ \E page \in Pages :
          /\ dpage' = page
          /\ cand' = FirstPick(page)
    /\ epc' = "validate"
    /\ UNCHANGED <<tried, alts, alt_link, out, skiplog, threadVars, files, readerVars, colVars, g2Vars, enVars, vlVars, scVars, dtVars>>

\* khidi_events.py:336-359: the first pick is validated; when it fails and
\* there is a page, the alternatives are gathered
ValidateFirst ==
    /\ epc = "validate"
    /\ \E v \in VerdictsOf[cand.link] :
          /\ tried' = <<v>>
          /\ IF ~v.ok /\ HasHtml(dpage) /\ Alternatives(dpage, cand.link) # <<>>
             THEN alts' = Alternatives(dpage, cand.link) /\ epc' = "alts"
             ELSE alts' = <<>> /\ epc' = "decide"
    /\ UNCHANGED <<erow, reg_date, dpage, cand, alt_link, out, skiplog, threadVars, files, readerVars, colVars, g2Vars, enVars, vlVars, scVars, dtVars>>

\* vm2 of an alternative that failed is kept nowhere: the next turn of the
\* loop overwrites it
Dropped(v) == [v EXCEPT !.final_url = <<>>, !.refreshed = FALSE]

\* khidi_events.py:360-365: one turn of "for _, u, txt in cands[:5]"
ValidateAlt ==
    /\ epc = "alts"
    /\ \E v \in VerdictsOf[Head(alts).u] :
          /\ tried' = Append(tried, IF v.ok THEN v ELSE Dropped(v))
          /\ IF v.ok
             THEN alt_link' = Head(alts).u /\ alts' = <<>> /\ epc' = "decide"
             ELSE /\ alt_link' = alt_link
                  /\ alts' = Tail(alts)
                  /\ epc' = IF Tail(alts) = <<>> THEN "decide" ELSE "alts"
    /\ UNCHANGED <<erow, reg_date, dpage, cand, out, skiplog, threadVars, files, readerVars, colVars, g2Vars, enVars, vlVars, scVars, dtVars>>

\* go_link and go_link_type, khidi_events.py:368-385
GoLink ==
    IF ~tried[1].ok /\ HasHtml(dpage)
    THEN IF alt_link = <<>> \/ looks_like_khidi_placeholder(alt_link)
         THEN [link |-> DetailHref, type |-> "detail_fallback", validation |-> tried[1]]
         ELSE [link |-> alt_link, type |-> "fallback", validation |-> tried[Len(tried)]]
    ELSE IF tried[1].ok /\ ~looks_like_khidi_placeholder(cand.link)
         THEN [link |-> cand.link, type |-> cand.type, validation |-> tried[1]]
         ELSE [link |-> DetailHref, type |-> cand.type, validation |-> tried[1]]

\* _no_original reduced to its test of go_link_type
NoOriginal_TypeOnly(go) == StartsWithDetail(go.type)

\* _no_original, khidi_events.py:390-394
NoOriginal(go) ==
    \/ go.link = DetailHref
    \/ looks_like_khidi_placeholder(go.link)
    \/ StartsWithDetail(go.type)

\* khidi_events.py:368-433: the row is logged as skipped or appended to out.
\* _log_skip (khidi_events.py:21-33) appends one record, or appends nothing
\* when writing the log raises: its except clause passes.
Decide ==
    /\ epc = "decide"
    /\ IF NoOriginal(GoLink)
       THEN /\ \E written \in BOOLEAN :
                 skiplog' = IF written
                            THEN Append(skiplog, [row |-> erow, picked_link |-> cand.link,
                                                  final_go_link |-> GoLink.link,
                                                  go_link_type |-> GoLink.type])
                            ELSE skiplog
            /\ out' = out
       ELSE /\ out' = Append(out, [row |-> erow, link |-> GoLink.link, date |-> reg_date,
                                   go_link_type |-> GoLink.type,
                                   final_url |-> GoLink.validation.final_url])
            /\ skiplog' = skiplog
    /\ epc' = "row"
    /\ reg_date' = <<>>
    /\ dpage' = NoPage
    /\ cand' = NoPick
    /\ tried' = <<>>
    /\ alts' = <<>>
    /\ alt_link' = <<>>
    /\ UNCHANGED <<erow, threadVars, files, readerVars, colVars, g2Vars, enVars, vlVars, scVars, dtVars>>

\* _key, khidi_events.py:437-441
EventKey(x) ==
    IF Len(x.date) = 1 /\ x.date[1] \in DayTokens THEN DayNumber(x.date[1]) ELSE DatetimeMin

\* khidi_events.py:436-444: out.sort(key=_key, reverse=True); return out
ReturnEvents ==
    /\ epc = "row"
    /\ out' = SortByKey(out, [i \in 1..Len(out) |-> <<0, 0 - EventKey(out[i]), <<>>>>])
    /\ epc' = "done"
    /\ UNCHANGED <<erow, reg_date, dpage, cand, tried, alts, alt_link, skiplog, threadVars, files, readerVars, colVars, g2Vars, enVars, vlVars, scVars, dtVars>>

\* khidi_events.py:308-309: r.raise_for_status() of a listing page raises
ListingRaises ==
    /\ epc = "row"
    /\ erow < MaxRows
    /\ epc' = "raised"
    /\ UNCHANGED <<erow, reg_date, dpage, cand, tried, alts, alt_link, out, skiplog, threadVars, files, readerVars, colVars, g2Vars, enVars, vlVars, scVars, dtVars>>

NextEvents ==
    \/ TakeRow
    \/ ValidateFirst
    \/ ValidateAlt
    \/ Decide
    \/ ReturnEvents
    \/ ListingRaises

SpecEvents == InitEvents /\ [][NextEvents]_vars

\* a placeholder path of the KHIDI site: /board or /board/-
InternalPlaceholder(u) ==
    Len(u) >= 3 /\ u[2] = "khidi" /\ u[3] \in {"/board", "/board/", "/board/-", "/board/-/"}

\* the validated candidates of the current row that are valid, are not the
\* detail page and are no placeholder
GenuineTried ==
    {i \in 1..Len(tried) : tried[i].ok /\ tried[i].url # DetailHref /\ ~InternalPlaceholder(tried[i].url)}

\* the detail page offers no meta-table link, no body anchor with a positive
\* score and no attachment
OffersNothing(page) ==
    /\ \A i \in 1..Len(page.meta) : is_placeholder_href(page.meta[i])
    /\ \A i \in 1..Len(page.body) :
          is_placeholder_href(page.body[i].href) \/ score_anchor(page.body[i]) <= 0
    /\ page.attach = <<>>

\* the step appends one event to out, with a link among urls
EmitsOneOf(urls) ==
    /\ Len(out') = Len(out) + 1
    /\ SubSeq(out', 1, Len(out)) = out
    /\ out'[Len(out')].link \in urls

\* C11: the terminal decision of a listing row.  When the validation of the
\* first pick and of the fallback alternatives is over, the row is emitted if
\* and only if a validated candidate is valid, is not the detail page and is
\* no placeholder, and then with such a URL as its link; otherwise nothing is
\* emitted.  A row whose detail page offers no meta link, no positive body
\* anchor and no attachment is never emitted.
C11_TerminalDecision ==
    [][epc = "decide" =>
          /\ GenuineTried # {} => EmitsOneOf({tried[i].url : i \in GenuineTried})
          /\ GenuineTried = {} => out' = out
          /\ OffersNothing(dpage) => out' = out]_vars

\* a row was emitted with an alternative found after its first pick failed
C11_Witness_FallbackEmitted ==
    \E i \in 1..Len(out) :
        /\ out[i].go_link_type = "fallback"
        /\ out[i].link # DetailHref
        /\ ~InternalPlaceholder(out[i].link)

\* C12: no emitted event has a link whose final URL, after the redirects and
\* the meta refresh its validation followed, is the detail page or a
\* placeholder path of the KHIDI site.
C12_FinalUrlNotDetailNorPlaceholder ==
    \A i \in 1..Len(out) :
        /\ out[i].final_url # DetailHref
        /\ ~InternalPlaceholder(out[i].final_url)

\* the rows whose processing is over
FinishedRows == {i \in 1..erow : i < erow \/ epc \in {"row", "done", "raised"}}
EmittedAs(i) == {k \in 1..Len(out) : out[k].row = i}
LoggedAs(i) == {k \in 1..Len(skiplog) : skiplog[k].row = i}

\* C20: every listing row that was processed ended in exactly one of two
\* ways: it was appended to out, or exactly one record of it was appended to
\* the skip log; never both and never neither.
C20_OneOutcomePerRow ==
    \A i \in FinishedRows :
        \/ Cardinality(EmittedAs(i)) = 1 /\ LoggedAs(i) = {}
        \/ EmittedAs(i) = {} /\ Cardinality(LoggedAs(i)) = 1

(***************************************************************************)
(* SpecScore: one score_notice(meta, extra_text) for every combination of  *)
(* agency fields and every choice of words in the title and the extra text.*)
(***************************************************************************)
MaxWords == 6
ScoreAlphabet ==
    <<"device", "health", "patient", "diagnosis", "clinic",
      "road", "air", "army", "nuclear", "qplatform", "ai", "notice">>

\* the text that lists the words of S
RECURSIVE TextOf(_, _)
TextOf(S, k) ==
    IF k = 0 THEN <<>>
    ELSE TextOf(S, k - 1) \o (IF ScoreAlphabet[k] \in S THEN <<ScoreAlphabet[k]>> ELSE <<>>)

ScoreTitles ==
    {TextOf(S, Len(ScoreAlphabet)) :
        S \in {T \in SUBSET WordsOf(ScoreAlphabet) : Cardinality(T) <= MaxWords}}
ExtraTexts == {<<>>, <<"device">>, <<"road", "ai">>}

InitScore ==
    /\ AppOff
    /\ ReaderOff
    /\ CollectOff
    /\ G2bOff
    /\ EnrichOff
    /\ EventsOff
    /\ ValidateOff
    /\ DateOff
    /\ spc = "call"
    /\ smeta \in [agencies : SUBSET {"primary", "secondary"}, name : ScoreTitles]
    /\ stext \in ExtraTexts
    /\ sres = NoScore

ScoreNotice ==
    /\ spc = "call"
    /\ sres' = [score |-> score_notice(smeta, stext),
                agency |-> AgencyPts(smeta),
                inc |-> IncPts(smeta, stext),
                exc |-> ExcPts(smeta, stext),
                ctx |-> CtxPts(smeta, stext),
                penalty |-> PenaltyPts(smeta, stext)]
    /\ spc' = "done"
    /\ UNCHANGED <<smeta, stext, threadVars, files, readerVars, colVars, g2Vars, enVars, evVars, vlVars, dtVars>>

NextScore == ScoreNotice

SpecScore == InitScore /\ [][NextScore]_vars

\* C14: the include keywords add between 0 and 4 points, the exclude
\* keywords take between 0 and 4 points, so together between -4 and +4.
C14_KeywordTermsBounded ==
    spc = "done" =>
        /\ sres.inc \in 0..4
        /\ sres.exc \in (0 - 4)..0
        /\ sres.inc + sres.exc \in (0 - 4)..4

\* five distinct include strings matched and the cap held the points at 4
C14_Witness_IncludeCapped ==
    /\ spc = "done"
    /\ Cardinality(Hay(smeta, stext) \cap {"device", "health", "patient", "diagnosis", "clinic"}) = 5
    /\ sres.inc = 4

\* C15: the agency term is 3 when a primary agency is named, whether or not a
\* secondary one is named too, 1 when only a secondary agency is named, and 0
\* otherwise; the score is the plain sum of the agency, include, exclude,
\* context and penalty terms, with no clamping (a primary agency and one
\* include keyword and nothing else give 4).
C15_AgencyWeightAndPlainSum ==
    spc = "done" =>
        /\ "primary" \in smeta.agencies => sres.agency = 3
        /\ "primary" \notin smeta.agencies /\ "secondary" \in smeta.agencies => sres.agency = 1
        /\ smeta.agencies = {} => sres.agency = 0
        /\ sres.score = sres.agency + sres.inc + sres.exc + sres.ctx + sres.penalty
        /\ (smeta.agencies = {"primary"} /\ smeta.name = <<"health">> /\ stext = <<>>) => sres.score = 4

\* both kinds of agency are named, the primary weight was given, and the sum
\* went below zero
C15_Witness_BothAgenciesNegativeSum ==
    /\ spc = "done"
    /\ smeta.agencies = {"primary", "secondary"}
    /\ sres.agency = 3
    /\ sres.score < 0

\* the patterns of pats that match somewhere in the text of the call
MatchingPatterns(pats) == {i \in 1..Len(pats) : pats[i] \cap Hay(smeta, stext) # {}}

\* C16: the include term is min(4, number of distinct include patterns that
\* match the title and the extra text) and the exclude term is the negative
\* of min(4, number of distinct exclude patterns that match): two words
\* matched by one pattern count once.
C16_CountsDistinctPatterns ==
    spc = "done" =>
        /\ sres.inc = Min(4, Cardinality(MatchingPatterns(INCLUDE_PATTERNS)))
        /\ sres.exc = 0 - Min(4, Cardinality(MatchingPatterns(EXCLUDE_PATTERNS)))

\* C17: the penalty of -1 is applied exactly when the agency weighting took
\* the secondary tier (+1) and no include keyword matched; a notice that got
\* the primary +3, or no agency weight, never gets it.
C17_PenaltyOnlyOnSecondaryTier ==
    spc = "done" =>
        /\ sres.penalty = 0 - 1 <=> (sres.agency = 1 /\ Hay(smeta, stext) \cap IncludeWords = {})
        /\ sres.agency \in {0, 3} => sres.penalty = 0

\* the call with the word w added to the title
WithWord(w) == [smeta EXCEPT !.name = Append(@, w)]

\* C18: one more matched include keyword never lowers the score (and raises
\* the include term by 1 until it is 4); one more matched exclude keyword
\* never raises the score (down to an exclude term of -4).
C18_KeywordMonotonicity ==
    spc = "done" =>
        /\ \A w \in IncludeWords \ Hay(smeta, stext) :
              /\ score_notice(WithWord(w), stext) >= sres.score
              /\ IncPts(WithWord(w), stext) = Min(4, sres.inc + 1)
        /\ \A w \in ExcludeWords \ Hay(smeta, stext) :
              /\ score_notice(WithWord(w), stext) <= sres.score
              /\ ExcPts(WithWord(w), stext) = 0 - Min(4, 1 - sres.exc)

(***************************************************************************)
(* SpecPick: one _pick_best_go_link(detail_html, detail_url) for every     *)
(* detail page of up to MaxAnchors labelled rows of the meta table, body   *)
(* anchors and attachment anchors.                                         *)
(***************************************************************************)
MaxAnchors == 2

\* body anchors: two of equal score with different URLs, and one whose text
\* scores but whose href is a placeholder
PickBodyAnchors ==
    BodyAnchors \cup {[href |-> ExtApply, text |-> <<"info">>], [href |-> <<"#">>, text |-> <<"apply">>]}

PickPages ==
    {[fetch |-> "ok", meta |-> m, body |-> b, attach |-> a] :
        m \in SeqsUpTo(MetaHrefs, MaxAnchors),
        b \in SeqsUpTo(PickBodyAnchors, MaxAnchors),
        a \in SeqsUpTo(AttachAnchors, MaxAnchors)}

InitPick ==
    /\ AppOff
    /\ ReaderOff
    /\ CollectOff
    /\ G2bOff
    /\ EnrichOff
    /\ ValidateOff
    /\ ScoreOff
    /\ DateOff
    /\ epc = "pick"
    /\ erow = 0
    /\ reg_date = <<>>
    /\ dpage \in PickPages
    /\ cand = NoPick
    /\ tried = <<>>
    /\ alts = <<>>
    /\ alt_link = <<>>
    /\ out = <<>>
    /\ skiplog = <<>>

\* khidi_events.py:331: cand_link, meta = _pick_best_go_link(dr_html, detail_href)
PickBestGoLink ==
    /\ epc = "pick"
    /\ cand' = pick_best_go_link(dpage, DetailHref)
    /\ epc' = "picked"
    /\ UNCHANGED <<erow, reg_date, dpage, tried, alts, alt_link, out, skiplog, threadVars, files, readerVars, colVars, g2Vars, enVars, vlVars, scVars, dtVars>>

NextPick == PickBestGoLink

SpecPick == InitPick /\ [][NextPick]_vars

\* the labelled rows of the meta table whose anchor is no placeholder
UsableMeta(page) == {i \in 1..Len(page.meta) : ~is_placeholder_href(page.meta[i])}

\* the body anchors with a usable href and a positive score
PositiveBody(page) ==
    {i \in 1..Len(page.body) : ~is_placeholder_href(page.body[i].href) /\ score_anchor(page.body[i]) > 0}

\* the attachment anchors whose URL ends in a document extension
DocAttach(page) ==
    {i \in 1..Len(page.attach) :
        /\ ~is_placeholder_href(page.attach[i].href)
        /\ IsDocument(urljoin(DetailHref, Strip(page.attach[i].href)))}

First(S) == CHOOSE i \in S : \A j \in S : i <= j

\* the positive body anchors of the highest score
BestBody(page) ==
    {i \in PositiveBody(page) :
        \A j \in PositiveBody(page) : score_anchor(page.body[j]) <= score_anchor(page.body[i])}

AbsUrl(href) == urljoin(DetailHref, Strip(href))

\* C21: the priority of _pick_best_go_link.  The pick is the first usable
\* link of the labelled meta rows; without one, a positive body anchor of the
\* highest score; without one, the first attachment anchor that names a
\* document; without one, the detail page.  go_link_type names the strategy.
C21_PickPriority ==
    epc = "picked" =>
        IF UsableMeta(dpage) # {}
        THEN cand = [link |-> AbsUrl(dpage.meta[First(UsableMeta(dpage))]), type |-> "meta"]
        ELSE IF PositiveBody(dpage) # {}
        THEN /\ cand.type = "body"
             /\ \E i \in BestBody(dpage) : cand.link = AbsUrl(dpage.body[i].href)
        ELSE IF DocAttach(dpage) # {}
        THEN cand = [link |-> AbsUrl(dpage.attach[First(DocAttach(dpage))].href), type |-> "attachment"]
        ELSE cand = [link |-> DetailHref, type |-> "detail"]

\* the meta link was picked although a body anchor scores and an attachment
\* names a document
C21_Witness_MetaOverBodyAndAttachment ==
    /\ epc = "picked"
    /\ cand.type = "meta"
    /\ PositiveBody(dpage) # {}
    /\ DocAttach(dpage) # {}
    /\ \E i \in 1..Len(dpage.meta) : is_placeholder_href(dpage.meta[i])

\* C22: among the positive body anchors the pick is one of the highest
\* score, and of several with the highest score the first of the document.
C22_BodyTieFirstOccurrence ==
    epc = "picked" /\ cand.type = "body" =>
        cand.link = AbsUrl(dpage.body[First(BestBody(dpage))].href)

\* the URL asked in the i-th place of one call: the URL of the call, then the
\* target of the meta refresh of the page before
RECURSIVE UrlAt(_)
UrlAt(i) == IF i = 1 THEN vurl ELSE Nxt(vnet[i - 1], UrlAt(i - 1))

\* a listed content type (HTML, PDF, binary, Word) or a body of more than 200 bytes
Substantive(content) == content \in {"html", "pdf", "large"}

\* the i-th URL asked names a meta refresh target other than itself
NamesTarget(i) == vnet[i].content = "html" /\ Nxt(vnet[i], UrlAt(i)) \notin {<<>>, Landed(vnet[i], UrlAt(i))}

\* the i-th URL asked is valid by the protocol
RECURSIVE ValidByProtocol(_)
ValidByProtocol(i) ==
    \/ vnet[i].head = "2xx"
    \/ /\ vnet[i].get = "lt400"
       /\ Substantive(vnet[i].content)
       /\ NamesTarget(i) => i < Len(vnet) /\ ValidByProtocol(i + 1)

\* the requests the protocol sends from the i-th URL on
RECURSIVE RequestsByProtocol(_)
RequestsByProtocol(i) ==
    IF vnet[i].head = "2xx" THEN <<"HEAD">>
    ELSE <<"HEAD", "GET">> \o
         (IF vnet[i].get = "lt400" /\ Substantive(vnet[i].content) /\ NamesTarget(i) /\ i < Len(vnet)
          THEN RequestsByProtocol(i + 1) ELSE <<>>)

\* C23: the validation protocol.  An empty URL is invalid and nothing is
\* requested.  Otherwise HEAD is sent first; a 2xx answer makes the URL valid
\* without a GET; after any other answer or an error of HEAD exactly one GET
\* is sent to the URL, and the URL is valid if and only if the status of the
\* GET is below 400, the content is substantive and the meta refresh target
\* it names, if any, is valid by the same protocol.
C23_ValidationProtocol ==
    vpc = "done" =>
        IF vurl = <<>>
        THEN ~vres.ok /\ vres.reqs = <<>> /\ ~vres.tried_head /\ ~vres.tried_get
        ELSE /\ vres.reqs = RequestsByProtocol(1)
             /\ vres.tried_head
             /\ vres.tried_get <=> vnet[1].head # "2xx"
             /\ vres.ok <=> ValidByProtocol(1)

\* HEAD failed, GET answered with a content type that is not listed and a body
\* of more than 200 bytes: valid after one HEAD and one GET
C23_Witness_ValidByBodySize ==
    /\ vpc = "done"
    /\ vnet[1].head = "error"
    /\ vnet[1].get = "lt400"
    /\ vnet[1].content = "large"
    /\ vres.ok
    /\ vres.reqs = <<"HEAD", "GET">>

\* C24: a meta refresh is followed for one hop only: one call validates at
\* most two URLs, however long the chain of pages that refresh to another URL.
C24_AtMostTwoUrlsValidated ==
    vpc = "done" => vres.asked <= 2 /\ Len(vres.reqs) <= 4

\* C25: a candidate whose HTML page names a meta refresh target elsewhere is
\* resolved to that target: when the validation of the emitted candidate
\* followed a meta refresh and is valid, the link of the emitted event is the
\* URL the refresh led to.
C25_ResolvedLinkIsRefreshTarget ==
    [][epc = "decide" /\ Len(out') = Len(out) + 1 /\ GoLink.validation.refreshed /\ GoLink.validation.ok
          => out'[Len(out')].link = GoLink.validation.final_url]_vars

\* the anchors of the page that are alternatives to the failed candidate:
\* body anchors with a usable href and a positive score, attachment anchors
\* with a usable href, whose URL is not that of the failed candidate
AltEntries(page, failed) ==
    {<<"body", i>> : i \in {k \in 1..Len(page.body) :
                              /\ ~is_placeholder_href(page.body[k].href)
                              /\ AbsUrl(page.body[k].href) # failed
                              /\ score_anchor(page.body[k]) > 0}}
    \cup {<<"attach", i>> : i \in {k \in 1..Len(page.attach) :
                                     /\ ~is_placeholder_href(page.attach[k].href)
                                     /\ AbsUrl(page.attach[k].href) # failed}}

AltUrl(page, e) == IF e[1] = "body" THEN AbsUrl(page.body[e[2]].href) ELSE AbsUrl(page.attach[e[2]].href)

\* an attachment anchor ranks with the score 3
AltScore(page, e) == IF e[1] = "body" THEN score_anchor(page.body[e[2]]) ELSE 3

\* list holds the five best alternatives (all of them when there are fewer),
\* each once, in descending order of score
RankedTopFive(list, page, failed) ==
    /\ Len(list) = Min(5, Cardinality(AltEntries(page, failed)))
    /\ \A i, j \in 1..Len(list) : i < j => list[i].sc >= list[j].sc
    /\ \E f \in [1..Len(list) -> AltEntries(page, failed)] :
          /\ \A i, j \in 1..Len(list) : i # j => f[i] # f[j]
          /\ \A i \in 1..Len(list) : list[i].u = AltUrl(page, f[i]) /\ list[i].sc = AltScore(page, f[i])
          /\ \A e \in AltEntries(page, failed) \ {f[i] : i \in 1..Len(list)} :
                \A i \in 1..Len(list) : AltScore(page, e) <= list[i].sc

\* C26: the fallback after a failed first candidate.  The alternatives are
\* the other positive body anchors and the attachment anchors whose URL is
\* not the failed candidate's, ranked by descending score; they are validated
\* one at a time in that order, validation stops at the first valid one, at
\* most five are validated for a row, and the failed candidate is not
\* validated again.
C26_FallbackAfterFailure ==
    [][/\ epc = "validate" =>
             IF ~tried'[1].ok /\ AltEntries(dpage, cand.link) # {}
             THEN epc' = "alts" /\ RankedTopFive(alts', dpage, cand.link)
             ELSE epc' = "decide" /\ alts' = <<>>
       /\ epc = "alts" =>
             /\ ~tried[1].ok
             /\ Len(tried') = Len(tried) + 1
             /\ SubSeq(tried', 1, Len(tried)) = tried
             /\ tried'[Len(tried')].url = Head(alts).u
             /\ tried'[Len(tried')].url # tried[1].url
             /\ Len(tried') <= 1 + 5
             /\ IF tried'[Len(tried')].ok
                THEN epc' = "decide" /\ alts' = <<>> /\ alt_link' = Head(alts).u
                ELSE alts' = Tail(alts) /\ epc' = (IF Tail(alts) = <<>> THEN "decide" ELSE "alts")]_vars

\* five alternatives were validated and failed, and the page offers more
C26_Witness_BudgetExhausted ==
    /\ epc = "decide"
    /\ Len(tried) = 6
    /\ \A i \in 1..Len(tried) : ~tried[i].ok
    /\ Cardinality(AltEntries(dpage, cand.link)) > 5

(***************************************************************************)
(* SpecG2b: one fetch_g2b_service_notices(prefer=...),                     *)
(* crawlers/g2b_api.py:157-326.  Times are numbers; the window of the run  *)
(* is [G2bStart, G2bNow].                                                  *)
(***************************************************************************)
MaxG2bItems == 2

\* start, end = now (g2b_api.py:182-185)
G2bStart == 1
G2bNow == 2
\* None as the result of _parse_dt_loose and of _scrape_posted_dt
NoTime == 0 - 1

\* a date field of an API item: absent, text that is no date, or a time
NoField == [k |-> "none", v |-> 0]
BadField == [k |-> "bad", v |-> 0]
At(n) == [k |-> "dt", v |-> n]

\* _parse_dt_loose(s), g2b_api.py:37-50
parse_dt_loose(raw) == IF raw.k = "dt" THEN raw.v ELSE NoTime

\* the items the API delivers.  service: bsnsDivNm holds 용역 and the title a
\* keyword; clse: bidClseDate and bidClseTm; posted: bidNtceDate and
\* bidNtceBgn; detail: the posting time _scrape_posted_dt finds on the detail
\* page of the item
G2bApiItems ==
    {[service |-> TRUE, clse |-> At(3), posted |-> At(1), bidNtceUrl |-> <<>>, bidNtceNo |-> <<"no">>, detail |-> NoTime],
     [service |-> TRUE, clse |-> At(2), posted |-> At(2), bidNtceUrl |-> <<>>, bidNtceNo |-> <<>>, detail |-> NoTime],
     [service |-> TRUE, clse |-> At(3), posted |-> At(0), bidNtceUrl |-> <<>>, bidNtceNo |-> <<>>, detail |-> 1],
     [service |-> TRUE, clse |-> At(3), posted |-> NoField, bidNtceUrl |-> <<>>, bidNtceNo |-> <<"no">>, detail |-> 1],
     [service |-> TRUE, clse |-> At(3), posted |-> BadField, bidNtceUrl |-> <<>>, bidNtceNo |-> <<>>, detail |-> 1],
     [service |-> TRUE, clse |-> At(1), posted |-> At(1), bidNtceUrl |-> <<>>, bidNtceNo |-> <<>>, detail |-> NoTime],
     [service |-> TRUE, clse |-> NoField, posted |-> At(1), bidNtceUrl |-> <<>>, bidNtceNo |-> <<>>, detail |-> NoTime],
     [service |-> FALSE, clse |-> At(3), posted |-> At(1), bidNtceUrl |-> <<>>, bidNtceNo |-> <<>>, detail |-> NoTime]}

\* what the API delivers for one mode: the request of page 1 raises
\* (g2b_api.py:207-209 stands outside the try), or the items of the pages
\* that answered, in the order of the scan
G2bAnswers ==
    {[raises |-> TRUE, items |-> <<>>]} \cup {[raises |-> FALSE, items |-> s] : s \in SeqsUpTo(G2bApiItems, MaxG2bItems)}

\* mode_order, g2b_api.py:187
mode_order(p) ==
    CASE p = "ntce" -> <<"ntce">>
      [] p = "clse" -> <<"clse">>
      [] OTHER -> <<"ntce", "clse">>

\* the loop body of _collect, g2b_api.py:229-274, for the items from the k-th
\* on; seen is seen_no_seq
RECURSIVE g2b_collect(_, _, _, _)
g2b_collect(mode, items, k, seen) ==
    IF k > Len(items) THEN <<>>
    ELSE LET it == items[k]
             clse_dt == parse_dt_loose(it.clse)
             no == Strip(it.bidNtceNo)
             api_posted == IF it.posted.k = "none" THEN NoTime ELSE parse_dt_loose(it.posted)
             link == IF detail_url_from_item(it) = PyNone THEN <<>> ELSE detail_url_from_item(it).v
         IN  IF ~it.service \/ clse_dt = NoTime \/ clse_dt < G2bNow \/ (no # <<>> /\ no \in seen)
             THEN g2b_collect(mode, items, k + 1, seen)
             ELSE <<[mode |-> mode, link |-> link, clse_dt |-> clse_dt, posted |-> api_posted,
                     need_detail |-> (mode = "clse" \/ api_posted = NoTime), detail |-> it.detail]>>
                  \o g2b_collect(mode, items, k + 1, IF no # <<>> THEN seen \cup {no} ELSE seen)

\* max_details of fetch_g2b_notices, g2b_api.py:358
max_details == 300

\* the correction of the posting time from the detail page, g2b_api.py:290-296
RECURSIVE g2b_fix(_, _, _)
g2b_fix(cands, k, fixed) ==
    IF k > Len(cands) THEN <<>>
    ELSE LET c == cands[k]
             scrape == c.need_detail /\ c.link # <<>> /\ fixed < max_details /\ c.posted = NoTime
         IN  <<IF scrape /\ c.detail # NoTime THEN [c EXCEPT !.posted = c.detail] ELSE c>>
             \o g2b_fix(cands, k + 1, IF scrape THEN fixed + 1 ELSE fixed)

\* the filter on the posting window and the closing time, g2b_api.py:299-316
RECURSIVE g2b_filter(_)
g2b_filter(cands) ==
    IF cands = <<>> THEN <<>>
    ELSE LET c == Head(cands)
         IN  (IF c.posted = NoTime \/ ~(G2bStart <= c.posted /\ c.posted <= G2bNow) \/ c.clse_dt < G2bNow
              THEN <<>>
              ELSE <<[mode |-> c.mode, link |-> c.link, notice_posted_at |-> c.posted, end_date |-> c.clse_dt]>>)
             \o g2b_filter(Tail(cands))

\* the loop over the modes without its break
BreakAfterMode_Never(final) == FALSE

\* if final: break, g2b_api.py:318-319
BreakAfterMode(final) == final # <<>>

InitG2b ==
    /\ AppOff
    /\ ReaderOff
    /\ CollectOff
    /\ EventsOff
    /\ ValidateOff
    /\ ScoreOff
    /\ DateOff
    /\ EnrichOff
    /\ gpc = "loop"
    /\ prefer \in {"ntce", "clse", "mix"}
    /\ gapi \in [{"ntce", "clse"} -> G2bAnswers]
    /\ gmodes = mode_order(prefer)
    /\ gfinal = <<>>
    /\ gran = <<>>

\* one turn of "for mode in mode_order", g2b_api.py:286-319
G2bMode ==
    /\ gpc = "loop"
    /\ gmodes # <<>>
    /\ LET mode == Head(gmodes)
           cands == g2b_fix(g2b_collect(mode, gapi[mode].items, 1, {}), 1, 0)
           final == gfinal \o g2b_filter(cands)
       IN  IF gapi[mode].raises
           THEN gpc' = "raised" /\ UNCHANGED <<gmodes, gfinal, gran>>
           ELSE /\ gfinal' = final
                /\ gran' = Append(gran, [mode |-> mode, final |-> Len(final)])
                /\ gmodes' = Tail(gmodes)
                /\ gpc' = IF BreakAfterMode(final) \/ Tail(gmodes) = <<>> THEN "sort" ELSE "loop"
    /\ UNCHANGED <<prefer, gapi, threadVars, files, readerVars, colVars, evVars, vlVars, scVars, dtVars, enVars>>

\* final.sort(key=_key, reverse=True); return final, g2b_api.py:322-326
G2bReturn ==
    /\ gpc = "sort"
    /\ gfinal' = SortByKey(gfinal, [i \in 1..Len(gfinal) |-> <<0, 0 - gfinal[i].notice_posted_at, <<>>>>])
    /\ gpc' = "returned"
    /\ UNCHANGED <<prefer, gapi, gmodes, gran, threadVars, files, readerVars, colVars, evVars, vlVars, scVars, dtVars, enVars>>

NextG2b == G2bMode \/ G2bReturn

SpecG2b == InitG2b /\ [][NextG2b]_vars

\* C27: with prefer='mix' the posted mode runs first and the deadline mode
\* runs only when the posted mode left final empty; the loop stops after the
\* first mode that yields an item, so the returned items all come from one
\* mode; each of them was posted inside [start, end] and closes at now or
\* later.
C27_MixModeBias ==
    prefer = "mix" /\ gpc \in {"sort", "returned"} =>
        /\ gran # <<>>
        /\ gran[1].mode = "ntce"
        /\ Len(gran) = 2 <=> gran[1].final = 0
        /\ Len(gran) = 2 => gran[2].mode = "clse"
        /\ Len(gran) <= 2
        /\ \A i, j \in 1..Len(gfinal) : gfinal[i].mode = gfinal[j].mode
        /\ \A i \in 1..Len(gfinal) :
              /\ G2bStart <= gfinal[i].notice_posted_at
              /\ gfinal[i].notice_posted_at <= G2bNow
              /\ gfinal[i].end_date >= G2bNow

\* the posted mode yielded nothing and the items returned are those of the
\* deadline mode
C27_Witness_DeadlineModeUsed ==
    /\ prefer = "mix"
    /\ gpc = "returned"
    /\ Len(gran) = 2
    /\ gfinal # <<>>
    /\ \A i \in 1..Len(gfinal) : gfinal[i].mode = "clse"
    /\ gapi["ntce"].items # <<>>

(***************************************************************************)
(* SpecEnrich: one enrich_and_filter(notices, fetch_meta_func,             *)
(* fetch_extra_text_func, threshold), main.py:43-63, for every list of up  *)
(* to MaxEnrich notices and everything the two functions can do for each.  *)
(***************************************************************************)
MaxEnrich == 2

\* n.get("meta", {}) of the notices of a listing
ListMetas ==
    {[agencies |-> {"primary"}, name |-> <<"health">>],
     [agencies |-> {"secondary"}, name |-> <<"road">>],
     EmptyMeta}

\* fetch_meta_func(n["link"]): raises, returns nothing ({} or None), or returns a meta
MetaOutcomes ==
    {[k |-> "raises", meta |-> EmptyMeta], [k |-> "returns", meta |-> EmptyMeta],
     [k |-> "returns", meta |-> [agencies |-> {"primary"}, name |-> <<"device">>]]}

\* fetch_extra_text_func(n["link"]): raises or returns a text
TextOutcomes ==
    {[k |-> "raises", text |-> <<>>], [k |-> "returns", text |-> <<>>],
     [k |-> "returns", text |-> <<"health">>]}

\* the except clause of the meta fetch replaced by one that forgets the meta
\* of the listing
meta_after_fetch_Forgets(meta, given, o) ==
    IF ~given THEN meta
    ELSE IF o.k = "raises" THEN EmptyMeta
    ELSE IF o.meta = EmptyMeta THEN meta ELSE o.meta

\* main.py:46-51: meta = fetch_meta_func(n["link"]) or meta; except Exception: pass
meta_after_fetch(meta, given, o) ==
    IF ~given THEN meta
    ELSE IF o.k = "raises" THEN meta
    ELSE IF o.meta = EmptyMeta THEN meta ELSE o.meta

\* main.py:53-58: extra_text = fetch_extra_text_func(n["link"]); except Exception: ""
text_after_fetch(given, o) ==
    IF ~given THEN <<>>
    ELSE IF o.k = "raises" THEN <<>>
    ELSE o.text

\* the loop of main.py:45-62 from the k-th notice on
RECURSIVE enrich_loop(_, _, _, _, _)
enrich_loop(notices, metas, texts, th, k) ==
    IF k > Len(notices) THEN <<>>
    ELSE LET meta == meta_after_fetch(notices[k], metas.given, metas.does[k])
             extra_text == text_after_fetch(texts.given, texts.does[k])
             res == is_interesting_for_association(meta, extra_text, th)
         IN  (IF res.ok THEN <<[n |-> notices[k], meta |-> meta, score |-> res.score]>> ELSE <<>>)
             \o enrich_loop(notices, metas, texts, th, k + 1)

InitEnrich ==
    /\ AppOff
    /\ ReaderOff
    /\ CollectOff
    /\ EventsOff
    /\ ValidateOff
    /\ ScoreOff
    /\ DateOff
    /\ G2bOff
    /\ npc = "call"
    /\ nnotices \in SeqsUpTo(ListMetas, MaxEnrich)
    /\ \E g \in BOOLEAN : \E d \in [1..Len(nnotices) -> MetaOutcomes] : nmeta = [given |-> g, does |-> d]
    /\ \E g \in BOOLEAN : \E d \in [1..Len(nnotices) -> TextOutcomes] : ntext = [given |-> g, does |-> d]
    /\ nth \in Thresholds
    /\ nsel = <<>>

\* selected = enrich_and_filter(notices, fetch_meta_func, fetch_extra_text_func, threshold)
EnrichAndFilter ==
    /\ npc = "call"
    /\ nsel' = enrich_loop(nnotices, nmeta, ntext, nth, 1)
    /\ npc' = "done"
    /\ UNCHANGED <<nnotices, nmeta, ntext, nth, threadVars, files, readerVars, colVars, evVars, vlVars, scVars, dtVars, g2Vars>>

NextEnrich == EnrichAndFilter

SpecEnrich == InitEnrich /\ [][NextEnrich]_vars

\* the meta fetch of the i-th notice gave a meta to use
MetaFetched(i) == nmeta.given /\ nmeta.does[i].k = "returns" /\ nmeta.does[i].meta # EmptyMeta
\* the text fetch of the i-th notice gave a text
TextFetched(i) == ntext.given /\ ntext.does[i].k = "returns"

\* what the i-th notice is scored with
ScoredMeta(i) == IF MetaFetched(i) THEN nmeta.does[i].meta ELSE nnotices[i]
ScoredText(i) == IF TextFetched(i) THEN ntext.does[i].text ELSE <<>>
NoticeScore(i) == score_notice(ScoredMeta(i), ScoredText(i))

\* the notices that reach the threshold
Reaching == {i \in 1..Len(nnotices) : NoticeScore(i) >= nth}

\* C30: a failure of fetch_meta_func or fetch_extra_text_func for one notice
\* stays with that notice.  The call returns; every notice is scored with the
\* fetched meta, or with the meta of the listing when the fetch raised or
\* returned nothing, and with the fetched text, or with no text when the
\* fetch raised; the notices that reach the threshold are returned, in the
\* order of the input.
C30_EnrichFailuresIsolated ==
    npc = "done" =>
        /\ Len(nsel) = Cardinality(Reaching)
        /\ \E f \in [1..Len(nsel) -> 1..Len(nnotices)] :
              /\ \A a, b \in 1..Len(nsel) : a < b => f[a] < f[b]
              /\ {f[a] : a \in 1..Len(nsel)} = Reaching
              /\ \A a \in 1..Len(nsel) :
                    nsel[a] = [n |-> nnotices[f[a]], meta |-> ScoredMeta(f[a]), score |-> NoticeScore(f[a])]

\* both fetches raised for the first notice, which is returned with the meta
\* of the listing, before a second notice returned with its fetched meta
C30_Witness_FailedFetchKept ==
    /\ npc = "done"
    /\ Len(nnotices) = 2
    /\ nmeta.given /\ nmeta.does[1].k = "raises"
    /\ ntext.given /\ ntext.does[1].k = "raises"
    /\ Len(nsel) = 2
    /\ nsel[1].meta = nnotices[1]
    /\ MetaFetched(2)
    /\ nsel[2].meta = nmeta.does[2].meta


(***************************************************************************)
(* The persisted result of a failed run, run_collection app.py:260-277.    *)
(***************************************************************************)
\* the steps of _atomic_write_json that touch results.json or results.json.bak
AwWriting == {"aw_backup", "aw_copy", "aw_replace"}
AwStages == {"aw_tmp", "aw_exists"} \cup AwWriting
\* collect raised in this step of thread t
CollectRaises(t) == pc[t] = "rc_collect" /\ pc'[t] = OnRaise(t)
\* collect completed in this step of thread t
CollectCompletes(t) == pc[t] = "rc_collect" /\ pc'[t] = "aw_tmp"

\* C29: a step in which collect raises modifies neither results.json nor
\* results.json.bak, and the run it belongs to goes on outside _atomic_write_json;
\* results.json and its backup change only in a step of _atomic_write_json, the
\* last call of run_collection that touches them, and a run gets into
\* _atomic_write_json only by a collect that completed.
C29_FailedRunLeavesResult ==
    [][ /\ \A t \in Threads : CollectRaises(t) =>
              /\ files' = files
              /\ pc'[t] \notin AwStages
        /\ (files'["canon"] # files["canon"] \/ files'["bak"] # files["bak"]) =>
              \E t \in Threads : pc[t] \in AwWriting /\ pc'[t] # pc[t]
        /\ \A t \in Threads : (pc'[t] \in AwStages /\ pc[t] \notin AwStages) => CollectCompletes(t)
      ]_vars

\* a refresh job whose collect raised has ended, and results.json still holds the
\* result written before the web app started, with no backup made
C29_Witness_FailedJobDone ==
    \E r \in Req :
        /\ pc[r] = "done"
        /\ kind[r] \in {"all", "notices"}
        /\ files["canon"] = Json(OldPayload)
        /\ files["bak"] = Missing


(***************************************************************************)
(* SpecLive: the web application with its job threads scheduled.  A        *)
(* started job thread (threading.Thread(target=_job).start(), app.py:314,  *)
(* 327, 340) is run by the interpreter until _job returns, and each call   *)
(* it makes completes or raises: every enabled step of a job is taken.     *)
(***************************************************************************)
\* the steps of _job of request r: the try body and the finally block
JobStep(r) == RcCollect(r) \/ RcUnlink(r) \/ atomic_write_json(r) \/ RunEvents(r) \/ JobFinally(r)

\* the web application while the auto-refresh thread is in the last iteration the
\* model follows
InitLive ==
    /\ FLAGS = [e \in Endpoints |-> FALSE]
    /\ pc = [t \in Threads |-> IF t = AutoThread THEN "rc_collect" ELSE "new"]
    /\ kind = [t \in Threads |-> IF t = AutoThread THEN "auto" ELSE "none"]
    /\ prev = [t \in Threads |-> Missing]
    /\ autoRuns = MaxAutoRuns
    /\ \E c \in {Missing, Json(OldPayload)} : files = [n \in FileNames |-> IF n = "canon" THEN c ELSE Missing]
    /\ ReaderOff /\ CollectOff /\ ExtOff

NextLive ==
    \/ \E r \in Req : refresh_all(r)
    \/ \E r \in Req : refresh_notices(r)
    \/ \E r \in Req : refresh_events(r)
    \/ \E t \in Threads : RcCollect(t)
    \/ \E t \in Threads : RcUnlink(t)
    \/ \E t \in Threads : atomic_write_json(t)
    \/ \E t \in Threads : RunEvents(t)
    \/ \E r \in Req : JobFinally(r)

SpecLive == InitLive /\ [][NextLive]_vars /\ \A r \in Req : WF_vars(JobStep(r))

\* the jobs of endpoint ep that are started and have not returned
JobsInFlight(ep) == {r \in Req : kind[r] = ep /\ InFlight(r)}
\* this step is the finally block of a job of endpoint ep
FinallyOf(ep) == \E r \in Req : kind[r] = ep /\ pc[r] = "finally" /\ pc'[r] = "done"
\* this step is a request to endpoint ep passing or failing the test of the flag
Passes(r, ep) == pc[r] = "new" /\ kind'[r] = ep /\ pc'[r] = "checked"
Refused(r, ep) == pc[r] = "new" /\ kind'[r] = ep /\ pc'[r] = "noop"

\* C28: every started job returns through its finally block, whether its
\* collection completed or raised, and that block sets the flag of the job's own
\* endpoint to False and leaves the other flags alone; a flag is True only while
\* a job of its endpoint is in flight, every flag that is True becomes False
\* again, and a request that finds the flag False gets to start a job.
C28_GuardFlagRelease ==
    /\ \A r \in Req : InFlight(r) ~> (pc[r] = "done")
    /\ \A ep \in Endpoints : FLAGS[ep] ~> ~FLAGS[ep]
    /\ [](\A ep \in Endpoints : FLAGS[ep] => JobsInFlight(ep) # {})
    /\ [][ /\ \A ep \in Endpoints : FinallyOf(ep) =>
                 /\ ~FLAGS'[ep]
                 /\ \A other \in Endpoints \ {ep} : FLAGS'[other] = FLAGS[other]
           /\ \A ep \in Endpoints : (FLAGS[ep] /\ ~FLAGS'[ep]) => FinallyOf(ep)
           /\ \A r \in Req, ep \in Endpoints :
                 /\ Refused(r, ep) => FLAGS[ep]
                 /\ (pc[r] = "new" /\ pc'[r] # "new" /\ kind'[r] = ep /\ ~FLAGS[ep]) => Passes(r, ep)
         ]_vars

\* a job has returned and left its flag False, and a later request to the same
\* endpoint has started a new job, which holds the flag now
C28_Witness_LaterJobStarted ==
    \E r1, r2 \in Req :
        /\ r1 < r2
        /\ kind[r1] = kind[r2]
        /\ pc[r1] = "done"
        /\ InFlight(r2)
        /\ FLAGS[kind[r2]]

=============================================================================
